---- MODULE Spec2Model ----
(***************************************************************************)
(* A model of the body-recomposition pipeline:                             *)
(*   scripts/parse_logs.py         load_foods, parse_food_line, match_food,*)
(*                                 compute_nutrients, process_file         *)
(*   scripts/compute_plot_tdee.py  load_summary, compute_tdee, main        *)
(*   scripts/write_tdee_summary.py main                                    *)
(*                                                                         *)
(* Text is a sequence of one-character strings.  Decimal numbers are       *)
(* scaled integers (the scale is named where it is used), confidences are  *)
(* tenths, and the quotients of compute_tdee are exact fractions.          *)
(***************************************************************************)
EXTENDS Integers, Sequences, FiniteSets, TLC

VARIABLES
    foods,          \* the reference table as read from foods.yaml (ordered mapping)
    slug_by_alias,  \* load_foods: alias key -> slug
    aliases_list,   \* load_foods: the alias vocabulary
    loaded,         \* load_foods has returned
    mname,          \* match_food: the name of the last call
    mresult,        \* match_food: the (slug, confidence) of the last call
    file,           \* process_file: os.path.basename(path)
    content,        \* process_file: post.content.splitlines(), the body lines
    cursor,         \* process_file: the body lines the loop has passed
    consumed,       \* process_file: the defaultdict of nutrient totals, in 1/100
    missing,        \* process_file: the missing list
    result,         \* process_file: the returned day record
    dpc,            \* process_file: "loop" in the body loop, "returned" after it
    summary,        \* outputs/data/summary.json: the list of day records
    window_days,    \* compute_tdee: the argument window_days
    df,             \* load_summary: the rows of the returned frame
    est_df,         \* compute_tdee: the estimates
    tpc,            \* compute_plot_tdee.main: where the run stands
    tdee_json,      \* outputs/data/tdee.json: no document, or the one document
    tdee_png,       \* outputs/graphs/tdee.png exists
    summary_md,     \* outputs/tdee_summary.md: no document, or the one document
    spc,            \* write_tdee_summary.main: where the run stands
    foods_yaml,     \* data/foods.yaml: no file, or the one table it holds
    protocol,       \* the *.md files under protocol/
    files,          \* parse_logs.main: sorted(glob(...)), the files still to process
    msummary,       \* parse_logs.main: the list summary
    all_missing,    \* parse_logs.main: the list all_missing
    summary_json,   \* what parse_logs.main wrote to outputs/data/summary.json
    missing_json,   \* what parse_logs.main wrote to outputs/data/missing_foods.json
    mpc,            \* parse_logs.main: where the run stands
    pline,          \* parse_food_line: the argument of the call
    presult,        \* parse_food_line: what the call returned
    ppc,            \* parse_food_line: "ready" before the call, "returned" after it
    htext,          \* load_file_meta: the lines of the file
    hmeta,          \* load_file_meta: the returned mapping
    hpc,            \* load_file_meta: "ready" before the call, "returned" after it
    nvalue,         \* normalize_value: the argument of the call
    nout,           \* normalize_value: the returned text
    npc             \* normalize_value: "ready" before the call, "returned" after it

tableVars == <<foods, slug_by_alias, aliases_list, loaded>>
matchVars == <<mname, mresult>>
dayVars == <<file, content, cursor, consumed, missing, result, dpc>>
tdeeVars == <<summary, window_days, df, est_df, tpc, tdee_json, tdee_png, summary_md, spc>>

runVars == <<foods_yaml, protocol, files, msummary, all_missing, summary_json, missing_json, mpc>>
parseVars == <<pline, presult, ppc>>
metaVars == <<htext, hmeta, hpc>>
normVars == <<nvalue, nout, npc>>
callVars == <<runVars, parseVars, metaVars, normVars>>

vars == <<tableVars, matchVars, dayVars, tdeeVars, callVars>>

(***************************************************************************)
(* Bounds of the model.                                                    *)
(***************************************************************************)
MaxNameLen == 3      \* characters of a food name handed to match_food
MaxLines == 3        \* body lines of a log file
MaxRecords == 3      \* day records of summary.json

(***************************************************************************)
(* Values.                                                                 *)
(***************************************************************************)
None == "None"

\* The printable ASCII characters in code-point order (str comparison); the
\* grave accent is written out.
AsciiOrder ==
    <<" ", "!", "\"", "#", "$", "%", "&", "'", "(", ")", "*", "+",
       ",", "-", ".", "/", "0", "1", "2", "3", "4", "5", "6", "7",
       "8", "9", ":", ";", "<", "=", ">", "?", "@", "A", "B", "C",
       "D", "E", "F", "G", "H", "I", "J", "K", "L", "M", "N", "O",
       "P", "Q", "R", "S", "T", "U", "V", "W", "X", "Y", "Z", "[",
       "\\", "]", "^", "_", "<grave>", "a", "b", "c", "d", "e", "f", "g",
       "h", "i", "j", "k", "l", "m", "n", "o", "p", "q", "r", "s",
       "t", "u", "v", "w", "x", "y", "z", "{", "|", "}", "~">>

Chars == {AsciiOrder[i] : i \in 1..Len(AsciiOrder)}

\* ord(c), counted from the first printable character.
OrdOf == [c \in Chars |-> CHOOSE i \in 1..Len(AsciiOrder) : AsciiOrder[i] = c]

Ord(c) == OrdOf[c]

\* str.lower() on one character: an upper-case letter becomes the letter at
\* the same distance from "a" as it is from "A".
LowerOf ==
    [c \in Chars |->
        IF OrdOf["A"] <= OrdOf[c] /\ OrdOf[c] <= OrdOf["Z"]
        THEN AsciiOrder[OrdOf[c] - OrdOf["A"] + OrdOf["a"]]
        ELSE c]

LowerChar(c) == LowerOf[c]

\* str.lower()
Lower(s) == [i \in 1..Len(s) |-> LowerChar(s[i])]

\* s[i:j] with 1-based inclusive positions; empty when j < i.
Slice(s, i, j) == [k \in 1..(j - i + 1) |-> s[i + k - 1]]

\* Python's order on str: a < b.
RECURSIVE StrLess(_, _)
StrLess(a, b) ==
    IF Len(b) = 0 THEN FALSE
    ELSE IF Len(a) = 0 THEN TRUE
    ELSE IF a[1] # b[1] THEN Ord(a[1]) < Ord(b[1])
    ELSE StrLess(Tail(a), Tail(b))

(***************************************************************************)
(* Reference table loader: parse_logs.load_foods.                          *)
(***************************************************************************)
EmptyMap == [k \in {} |-> None]

\* dict[k] = v
Put(map, k, v) == [x \in (DOMAIN map) \cup {k} |-> IF x = k THEN v ELSE map[x]]

\* The aliases load_foods walks for one entry: the declared aliases, then the
\* slug itself, then the display name.
EntryAliases(entry) == entry.aliases \o <<entry.slug, entry.name>>

\* The inner loop of load_foods: empty aliases are skipped, the key is the
\* lower-cased alias, and the assignment overwrites.
RECURSIVE LoadAliases(_, _, _)
LoadAliases(as, slug, map) ==
    IF Len(as) = 0 THEN map
    ELSE IF Len(Head(as)) = 0 THEN LoadAliases(Tail(as), slug, map)
    ELSE LoadAliases(Tail(as), slug, Put(map, Lower(Head(as)), slug))

\* The outer loop of load_foods over the entries in file order.
RECURSIVE LoadFoodsMap(_, _)
LoadFoodsMap(fs, map) ==
    IF Len(fs) = 0 THEN map
    ELSE LoadFoodsMap(Tail(fs), LoadAliases(EntryAliases(Head(fs)), Head(fs).slug, map))

\* sorted(set(all_aliases)): every key ever stored, as a set.
AllAliases(fs) == DOMAIN LoadFoodsMap(fs, EmptyMap)

(***************************************************************************)
(* difflib.SequenceMatcher(a, b).ratio() as get_close_matches uses it      *)
(* (no junk: the autojunk heuristic needs 200 characters).                 *)
(***************************************************************************)
Min(x, y) == IF x < y THEN x ELSE y

\* The length of the common run of a from i and b from j.
RECURSIVE CommonRun(_, _, _, _)
CommonRun(a, b, i, j) ==
    IF i > Len(a) \/ j > Len(b) \/ a[i] # b[j] THEN 0
    ELSE 1 + CommonRun(a, b, i + 1, j + 1)

\* find_longest_match: the longest common block, the earliest in a among the
\* longest, the earliest in b among those.  <<i, j, 0>> when none.
LongestMatch(a, b) ==
    LET starts == {p \in (1..Len(a)) \X (1..Len(b)) : a[p[1]] = b[p[2]]}
        blocks == {<<p[1], p[2], CommonRun(a, b, p[1], p[2])>> : p \in starts}
    IN  IF blocks = {} THEN <<1, 1, 0>>
        ELSE CHOOSE t \in blocks :
                \A u \in blocks :
                    \/ u[3] < t[3]
                    \/ u[3] = t[3] /\ t[1] < u[1]
                    \/ u[3] = t[3] /\ t[1] = u[1] /\ t[2] <= u[2]

\* get_matching_blocks: the sum of the sizes of the blocks found by splitting
\* left and right of each longest match.
RECURSIVE MatchCount(_, _)
MatchCount(a, b) ==
    IF Len(a) = 0 \/ Len(b) = 0 THEN 0
    ELSE LET t == LongestMatch(a, b)
         IN  IF t[3] = 0 THEN 0
             ELSE t[3]
                  + MatchCount(Slice(a, 1, t[1] - 1), Slice(b, 1, t[2] - 1))
                  + MatchCount(Slice(a, t[1] + t[3], Len(a)), Slice(b, t[2] + t[3], Len(b)))

\* ratio() = 2.0 * matches / (len(a) + len(b)), kept as the fraction num/den.
Ratio(a, b) == [num |-> 2 * MatchCount(a, b), den |-> Len(a) + Len(b)]

(***************************************************************************)
(* Food matcher: parse_logs.match_food.                                    *)
(***************************************************************************)
\* The confidences, in tenths, and the similarity cutoff, in tenths.
ConfExact == 10
ConfToken == 9
ConfFuzzy == 8
ConfNone == 0
Threshold == 6

\* The separator class of re.split(r'[ ,\-_/]+', key).
Separators == {" ", ",", "-", "_", "/"}

Whitespace == {" "}

\* str.strip()
RECURSIVE Strip(_)
Strip(s) ==
    IF Len(s) = 0 THEN s
    ELSE IF s[1] \in Whitespace THEN Strip(Tail(s))
    ELSE IF s[Len(s)] \in Whitespace THEN Strip(Slice(s, 1, Len(s) - 1))
    ELSE s

\* re.split on runs of separators: the pieces, empty ones included (a name
\* that starts or ends with a separator gives an empty first or last piece).
RECURSIVE SplitPieces(_, _, _)
SplitPieces(s, cur, inRun) ==
    IF Len(s) = 0 THEN <<cur>>
    ELSE IF s[1] \in Separators
         THEN IF inRun THEN SplitPieces(Tail(s), cur, TRUE)
              ELSE <<cur>> \o SplitPieces(Tail(s), <<>>, TRUE)
         ELSE SplitPieces(Tail(s), Append(cur, s[1]), FALSE)

\* tokens = [t.strip() for t in re.split(...) if t]
RECURSIVE StripNonEmpty(_)
StripNonEmpty(ps) ==
    IF Len(ps) = 0 THEN <<>>
    ELSE IF Len(Head(ps)) = 0 THEN StripNonEmpty(Tail(ps))
    ELSE <<Strip(Head(ps))>> \o StripNonEmpty(Tail(ps))

Tokens(key) == StripNonEmpty(SplitPieces(key, <<>>, FALSE))

\* A scan from the first token to the last (the mutant of LastAliasToken).
FirstAliasToken(tokens, i, map) ==
    IF \E k \in 1..i : tokens[k] \in DOMAIN map
    THEN CHOOSE k \in 1..i :
            tokens[k] \in DOMAIN map /\ \A h \in 1..(k - 1) : tokens[h] \notin DOMAIN map
    ELSE 0

\* for t in reversed(tokens): if t in slug_by_alias: return ...
\* The position of the token the loop returns at, 0 when it runs out.
RECURSIVE LastAliasToken(_, _, _)
LastAliasToken(tokens, i, map) ==
    IF i = 0 THEN 0
    ELSE IF tokens[i] \in DOMAIN map THEN i
    ELSE LastAliasToken(tokens, i - 1, map)

\* (score, x) < (score', x'): the order heapq.nlargest sorts the candidates by.
ScoredLess(p, q) ==
    \/ p.score.num * q.score.den < q.score.num * p.score.den
    \/ /\ p.score.num * q.score.den = q.score.num * p.score.den
       /\ StrLess(p.x, q.x)

\* The candidates get_close_matches keeps: ratio >= cutoff.
CloseCandidates(word, possibilities, cutoff) ==
    {p \in {[score |-> Ratio(x, word), x |-> x] : x \in possibilities} :
        10 * p.score.num >= cutoff * p.score.den}

\* heapq.nlargest(n, result): the n best, best first.
RECURSIVE NLargest(_, _)
NLargest(n, cands) ==
    IF n = 0 \/ cands = {} THEN <<>>
    ELSE LET best == CHOOSE p \in cands : \A q \in cands : q = p \/ ScoredLess(q, p)
         IN  <<best.x>> \o NLargest(n - 1, cands \ {best})

\* get_close_matches(word, possibilities, n=3, cutoff)
CloseN == 3

GetCloseMatches(word, possibilities, cutoff) ==
    NLargest(CloseN, CloseCandidates(word, possibilities, cutoff))

\* slug_by_alias.get(best)
MapGet(map, k) == IF k \in DOMAIN map THEN map[k] ELSE None

\* match_food with the token layer tried before the exact layer (a mutant).
MatchFoodTokenFirst(name, map, aliases) ==
    LET key == Lower(name)
        tokens == Tokens(key)
        hit == LastAliasToken(tokens, Len(tokens), map)
        matches == GetCloseMatches(key, aliases, Threshold)
    IN  IF hit # 0 THEN <<map[tokens[hit]], ConfToken>>
        ELSE IF key \in DOMAIN map THEN <<map[key], ConfExact>>
        ELSE IF Len(matches) > 0 THEN <<MapGet(map, matches[1]), ConfFuzzy>>
        ELSE <<None, ConfNone>>

\* match_food with the approximate layer given the name as written instead of
\* the lower-cased key (a mutant).
MatchFoodFuzzyOnName(name, map, aliases) ==
    LET key == Lower(name)
        tokens == Tokens(key)
        hit == LastAliasToken(tokens, Len(tokens), map)
        matches == GetCloseMatches(name, aliases, Threshold)
    IN  IF key \in DOMAIN map THEN <<map[key], ConfExact>>
        ELSE IF hit # 0 THEN <<map[tokens[hit]], ConfToken>>
        ELSE IF Len(matches) > 0 THEN <<MapGet(map, matches[1]), ConfFuzzy>>
        ELSE <<None, ConfNone>>

\* match_food(name, slug_by_alias, aliases_list, threshold=0.6)
MatchFood(name, map, aliases) ==
    LET key == Lower(name)
        tokens == Tokens(key)
        hit == LastAliasToken(tokens, Len(tokens), map)
        matches == GetCloseMatches(key, aliases, Threshold)
    IN  IF key \in DOMAIN map THEN <<map[key], ConfExact>>
        ELSE IF hit # 0 THEN <<map[tokens[hit]], ConfToken>>
        ELSE IF Len(matches) > 0 THEN <<MapGet(map, matches[1]), ConfFuzzy>>
        ELSE <<None, ConfNone>>

(***************************************************************************)
(* Numbers: parse_logs.to_number.  A float read from decimal text is kept   *)
(* as the pair <<m, e>> for m / 10^e: m the digits as an integer and e the *)
(* number of fraction digits.  The empty tuple stands for a None result.   *)
(***************************************************************************)
IsDigit(c) == Ord("0") <= Ord(c) /\ Ord(c) <= Ord("9")

IsSpace(c) == c \in Whitespace

\* The length of the run of digits of s from position p on (0 when p is past
\* the end): what a greedy [0-9]* takes.
RECURSIVE DigitRun(_, _)
DigitRun(s, p) ==
    IF p > Len(s) \/ ~IsDigit(s[p]) THEN 0 ELSE 1 + DigitRun(s, p + 1)

\* The same for blanks: what a greedy \s* takes.
RECURSIVE SpaceRun(_, _)
SpaceRun(s, p) ==
    IF p > Len(s) \/ ~IsSpace(s[p]) THEN 0 ELSE 1 + SpaceRun(s, p + 1)

RECURSIVE Pow10(_)
Pow10(e) == IF e = 0 THEN 1 ELSE 10 * Pow10(e - 1)

\* int() of a run of digits; 0 for the empty run.
RECURSIVE DigitsValue(_)
DigitsValue(ds) ==
    IF Len(ds) = 0 THEN 0
    ELSE 10 * DigitsValue(Slice(ds, 1, Len(ds) - 1)) + (Ord(ds[Len(ds)]) - Ord("0"))

\* The comma left in place (the mutant of CommaToDot).
CommaKept(s) == s

\* s.replace(',', '.')
CommaToDot(s) == [i \in 1..Len(s) |-> IF s[i] = "," THEN "." ELSE s[i]]

\* The first position of s that holds a digit, 0 when there is none.
FirstDigit(s) ==
    IF \E i \in 1..Len(s) : IsDigit(s[i])
    THEN CHOOSE i \in 1..Len(s) : IsDigit(s[i]) /\ \A j \in 1..(i - 1) : ~IsDigit(s[j])
    ELSE 0

\* to_number(s): strip, comma to dot, the first match of [0-9]+\.?[0-9]*,
\* float() of it; None (the empty tuple) when s holds no digit.
ToNumber(text) ==
    LET s == CommaToDot(Strip(text))
        i == FirstDigit(s)
        nd == DigitRun(s, i)
        dot == IF i + nd <= Len(s) /\ s[i + nd] = "." THEN 1 ELSE 0
        nf == DigitRun(s, i + nd + dot)
    IN  IF i = 0 THEN <<>>
        ELSE << DigitsValue(Slice(s, i, i + nd - 1)) * Pow10(nf)
                   + DigitsValue(Slice(s, i + nd + dot, i + nd + dot + nf - 1)),
                nf >>

(***************************************************************************)
(* Food-line parser: parse_logs.parse_food_line.                           *)
(***************************************************************************)
\* re.sub(r'^[-\*]\s*', '', line): one leading bullet and the blanks after it.
StripBullet(s) ==
    IF Len(s) > 0 /\ s[1] \in {"-", "*"}
    THEN Slice(s, 2 + SpaceRun(s, 2), Len(s))
    ELSE s

DecimalSeps == {".", ","}

\* The unit alternatives g|gramm|g\. in the order the pattern tries them,
\* matched without regard to case (re.I).
UnitAlternatives == << <<"g">>, <<"g", "r", "a", "m", "m">>, <<"g", ".">> >>

UnitAt(s, p, u) ==
    /\ p + Len(u) - 1 <= Len(s)
    /\ Lower(Slice(s, p, p + Len(u) - 1)) = u

\* Where the pieces of a parse start: the separator, the fraction digits,
\* the blanks, the unit, the blanks after it and the name.
UnitLen(u) == IF u = 4 THEN 0 ELSE Len(UnitAlternatives[u])

\* The ways the primary pattern
\*   ^(?P<qty>[0-9]+[\.,]?[0-9]*)\s*(?P<unit>g|gramm|g\.)?\s+(?P<name>.+)$
\* matches s: nd digits, sep separators (0 or 1), nf fraction digits, w1
\* blanks, unit alternative unit (4: the optional group is skipped), w2 >= 1
\* blanks and a non-empty rest.  Each piece ranges over what stands at its
\* place in s.
PrimaryParses(s) ==
    UNION {UNION {UNION {UNION {UNION {
        {[nd |-> nd, sep |-> sep, nf |-> nf, w1 |-> w1, unit |-> u, w2 |-> w2] :
            w2 \in {w \in 1..SpaceRun(s, nd + sep + nf + w1 + UnitLen(u) + 1) :
                      nd + sep + nf + w1 + UnitLen(u) + w + 1 <= Len(s)}}
        : u \in {x \in 1..4 :
                   x = 4 \/ UnitAt(s, nd + sep + nf + w1 + 1, UnitAlternatives[x])}}
        : w1 \in 0..SpaceRun(s, nd + sep + nf + 1)}
        : nf \in 0..DigitRun(s, nd + sep + 1)}
        : sep \in {x \in {0, 1} :
                     x = 1 => (nd + 1 <= Len(s) /\ s[nd + 1] \in DecimalSeps)}}
        : nd \in 1..DigitRun(s, 1)}

\* The order in which backtracking reaches the parses: every greedy piece
\* from its longest to its shortest, the unit alternatives in pattern order
\* and the skipped unit last.
TriedBefore(c, d) ==
    LET kc == <<0 - c.nd, 0 - c.sep, 0 - c.nf, 0 - c.w1, c.unit, 0 - c.w2>>
        kd == <<0 - d.nd, 0 - d.sep, 0 - d.nf, 0 - d.w1, d.unit, 0 - d.w2>>
    IN  \E i \in 1..6 : kc[i] < kd[i] /\ \A j \in 1..(i - 1) : kc[j] = kd[j]

\* parse_food_line without the test `if name:` of the fallback (a mutant).
ParseFoodLineAnyName(line) ==
    LET s == StripBullet(Strip(line))
        parses == PrimaryParses(s)
        first == CHOOSE c \in parses : \A d \in parses : d = c \/ TriedBefore(c, d)
        qEnd == first.nd + first.sep + first.nf
        nStart == qEnd + first.w1 + UnitLen(first.unit) + first.w2 + 1
        i == FirstDigit(s)
        nd == DigitRun(s, i)
        sep == IF i + nd <= Len(s) /\ s[i + nd] \in DecimalSeps THEN 1 ELSE 0
        nf == DigitRun(s, i + nd + sep)
        end == i + nd + sep + nf - 1
    IN  IF parses # {}
        THEN <<ToNumber(Slice(s, 1, qEnd)), "g", Strip(Slice(s, nStart, Len(s)))>>
        ELSE IF i # 0
        THEN <<ToNumber(Slice(s, i, end)), None, Strip(Slice(s, end + 1, Len(s)))>>
        ELSE <<>>

\* parse_food_line(line): <<qty, unit, name>>, or None (the empty tuple).
ParseFoodLine(line) ==
    LET s == StripBullet(Strip(line))
        parses == PrimaryParses(s)
        first == CHOOSE c \in parses : \A d \in parses : d = c \/ TriedBefore(c, d)
        qEnd == first.nd + first.sep + first.nf
        nStart == qEnd + first.w1 + UnitLen(first.unit) + first.w2 + 1
        \* fallback: re.search(r'(?P<qty>[0-9]+[\.,]?[0-9]*)', line)
        i == FirstDigit(s)
        nd == DigitRun(s, i)
        sep == IF i + nd <= Len(s) /\ s[i + nd] \in DecimalSeps THEN 1 ELSE 0
        nf == DigitRun(s, i + nd + sep)
        end == i + nd + sep + nf - 1
        rest == Strip(Slice(s, end + 1, Len(s)))
    IN  IF parses # {}
        THEN <<ToNumber(Slice(s, 1, qEnd)), "g", Strip(Slice(s, nStart, Len(s)))>>
        ELSE IF i # 0 /\ Len(rest) > 0
        THEN <<ToNumber(Slice(s, i, end)), None, rest>>
        ELSE <<>>

(***************************************************************************)
(* Nutrients of one line: parse_logs.compute_nutrients.  Amounts are       *)
(* integers in hundredths, the unit round(x, 2) rounds to.                 *)
(***************************************************************************)
\* round(x, 2) in hundredths for the float x next to the fraction n/d
\* hundredths (n >= 0, d > 0).  Off a tie it is the nearest hundredth.  On a
\* tie the binary product lies a rounding error to one side of the tie or
\* the other (389 * 0.025 rounds to 9.73, 1 * 0.015 to 0.01): both
\* neighbours are outcomes.
RoundChoices(n, d) ==
    LET q == n \div d
        r == n % d
    IN  IF 2 * r < d THEN {q}
        ELSE IF 2 * r > d THEN {q + 1}
        ELSE {q, q + 1}

\* round(per100 * factor, 2) in hundredths, factor = (qty_g or 0) / 100.0 and
\* qty_g = m / 10^e: per100 * m / 10^e hundredths.
RoundedShare(per100, qty) ==
    IF Len(qty) = 0 THEN {0} ELSE RoundChoices(per100 * qty[1], Pow10(qty[2]))

\* A tenth of the share (the mutant of ComputeNutrients divides by 1000).
ComputeNutrientsPerMille(qty, entry) ==
    [kcal : {x \div 10 : x \in RoundedShare(entry.kcal_per_100g, qty)},
     protein_g : {x \div 10 : x \in RoundedShare(entry.protein_g_per_100g, qty)},
     carbs_g : {x \div 10 : x \in RoundedShare(entry.carbs_g_per_100g, qty)},
     fat_g : {x \div 10 : x \in RoundedShare(entry.fat_g_per_100g, qty)}]

\* compute_nutrients(qty_g, food_entry): the dicts it can return.
ComputeNutrients(qty, entry) ==
    [kcal : RoundedShare(entry.kcal_per_100g, qty),
     protein_g : RoundedShare(entry.protein_g_per_100g, qty),
     carbs_g : RoundedShare(entry.carbs_g_per_100g, qty),
     fat_g : RoundedShare(entry.fat_g_per_100g, qty)]

(***************************************************************************)
(* Day aggregator: the body loop of parse_logs.process_file.               *)
(***************************************************************************)
\* foods.get(slug), for a slug the table holds.
FoodsGet(fs, slug) == fs[CHOOSE i \in 1..Len(fs) : fs[i].slug = slug]

\* `not entry` for entry = foods.get(slug): no entry under slug, or an empty one.
NotEntry(fs, slug) ==
    \/ \A i \in 1..Len(fs) : fs[i].slug # slug
    \/ FoodsGet(fs, slug).empty

\* The position of the last "/" of a path, 0 when it has none.
RECURSIVE LastSlash(_, _)
LastSlash(path, i) ==
    IF i = 0 THEN 0
    ELSE IF path[i] = "/" THEN i
    ELSE LastSlash(path, i - 1)

\* os.path.basename(path)
Basename(path) == Slice(path, LastSlash(path, Len(path)) + 1, Len(path))

\* {'file': os.path.basename(path), 'line': line.strip(), 'name': name}
MissingEntry(path, line, name) ==
    [file |-> Basename(path), line |-> Strip(line), name |-> name]

\* The name of a recognised line through match_food.
MatchParsed(parsed, map, aliases) == MatchFood(parsed[3], map, aliases)

\* What the loop does with a line, given what parse_food_line and match_food
\* return for it (parse_logs.py:207-225).  A parsed name is a str, so of
\* `qty is None or name is None` only the first can hold.
OutcomeOf(line, path, fs, parsed, match) ==
    IF Len(Strip(line)) = 0 THEN [kind |-> "skipped"]
    ELSE IF Len(parsed) = 0 THEN [kind |-> "skipped"]
    ELSE IF Len(parsed[1]) = 0 THEN [kind |-> "skipped"]
    ELSE IF match[1] = None
    THEN [kind |-> "missing", match |-> match, name |-> parsed[3],
          entry |-> MissingEntry(path, line, parsed[3])]
    ELSE IF NotEntry(fs, match[1])
    THEN [kind |-> "missing", match |-> match, name |-> parsed[3],
          entry |-> MissingEntry(path, line, parsed[3])]
    ELSE [kind |-> "resolved", match |-> match, name |-> parsed[3],
          nutrients |-> ComputeNutrients(parsed[1], FoodsGet(fs, match[1]))]

\* The same with an unresolved line passed over without a record.
OutcomeOfSilent(line, path, fs, parsed, match) ==
    IF Len(Strip(line)) = 0 \/ Len(parsed) = 0 THEN [kind |-> "skipped"]
    ELSE IF match[1] = None \/ NotEntry(fs, match[1]) THEN [kind |-> "skipped"]
    ELSE [kind |-> "resolved", match |-> match, name |-> parsed[3],
          nutrients |-> ComputeNutrients(parsed[1], FoodsGet(fs, match[1]))]

\* An unresolved line leaves no record (the mutant of LineOutcome).
LineOutcomeSilent(line, path, fs, map, aliases) ==
    OutcomeOfSilent(line, path, fs, ParseFoodLine(line),
                    MatchParsed(ParseFoodLine(line), map, aliases))

\* One pass of the loop `for line in post.content.splitlines()`: what the
\* line does to the missing list and to the totals.
LineOutcome(line, path, fs, map, aliases) ==
    OutcomeOf(line, path, fs, ParseFoodLine(line),
              MatchParsed(ParseFoodLine(line), map, aliases))

\* defaultdict(float): consumed[k], 0 for a key never added to.
Total(totals, k) == IF k \in DOMAIN totals THEN totals[k] ELSE 0

\* for k, v in nutrients.items(): consumed[k] += v
AddNutrients(totals, nutrients) ==
    [k \in (DOMAIN totals) \cup (DOMAIN nutrients) |->
        Total(totals, k) + (IF k \in DOMAIN nutrients THEN nutrients[k] ELSE 0)]

(***************************************************************************)
(* Inputs of the matcher runs.                                             *)
(***************************************************************************)
SeqsUpTo(S, n) == UNION {[1..k -> S] : k \in 0..n}

NoRepeat(fs) == \A i, j \in 1..Len(fs) : fs[i].slug = fs[j].slug => i = j

\* foods.yaml files: ordered mappings (no slug twice) of entries.  An entry
\* holds its aliases, its display name ('' when the key is absent) and its
\* values per 100 g (0 when absent); empty marks an entry written as {}.
SlugPool == {<<"a">>, <<"b">>}

AliasListPool ==
    { <<>>,
      << <<"a">> >>,
      << <<"A">> >>,
      << <<"b">> >>,
      << <<"a", "b">> >>,
      << <<"a", " ", "b">> >>,
      << <<"b">>, <<"a", " ", "b">> >> }

NamePool == {<<>>, <<"B">>}

MatchEntries ==
    [slug : SlugPool, aliases : AliasListPool, name : NamePool,
     kcal_per_100g : {0}, protein_g_per_100g : {0},
     carbs_g_per_100g : {0}, fat_g_per_100g : {0}, empty : {FALSE}]

\* The table of the documented example: "vollkornreis" is an alias, the full
\* name is not, and another food has the closer approximate match.
UncleBens == <<"U", "n", "c", "l", "e", " ", "B", "e", "n", "s", " ", "V", "o", "l", "l", "k", "o", "r", "n", "r", "e", "i", "s">>

RiceTable ==
    << [slug |-> <<"r", "e", "i", "s", "_", "v", "o", "l", "l", "k", "o", "r", "n">>,
        aliases |-> << <<"v", "o", "l", "l", "k", "o", "r", "n", "r", "e", "i", "s">> >>,
        name |-> <<>>,
        kcal_per_100g |-> 0, protein_g_per_100g |-> 0,
        carbs_g_per_100g |-> 0, fat_g_per_100g |-> 0, empty |-> FALSE],
       [slug |-> <<"r", "e", "i", "s", "_", "l", "a", "n", "g", "k", "o", "r", "n">>,
        aliases |-> << <<"u", "n", "c", "l", "e", " ", "b", "e", "n", "s", " ", "l", "a", "n", "g", "k", "o", "r", "n", "r", "e", "i", "s">> >>,
        name |-> <<>>,
        kcal_per_100g |-> 0, protein_g_per_100g |-> 0,
        carbs_g_per_100g |-> 0, fat_g_per_100g |-> 0, empty |-> FALSE] >>

MatchTables ==
    {fs \in SeqsUpTo(MatchEntries, Cardinality(SlugPool)) : NoRepeat(fs)} \cup {RiceTable}

\* Names as parse_food_line hands them over: non-empty and stripped.
NameChars == {"a", "b", "A", " ", "-"}

Names ==
    {n \in SeqsUpTo(NameChars, MaxNameLen) :
        Len(n) > 0 /\ n[1] \notin Whitespace /\ n[Len(n)] \notin Whitespace}
    \cup {UncleBens}

(***************************************************************************)
(* The matcher run: load the table, then resolve names against it.         *)
(***************************************************************************)
\* The estimator scripts have not been started and have left no file.
TdeeIdle ==
    /\ summary = <<>>
    /\ window_days = 0
    /\ df = <<>>
    /\ est_df = <<>>
    /\ tpc = "idle"
    /\ tdee_json = <<>>
    /\ tdee_png = FALSE
    /\ summary_md = <<>>
    /\ spc = "idle"

\* parse_logs.main has not been started and has written nothing.
RunIdle ==
    /\ foods_yaml = <<>>
    /\ protocol = {}
    /\ files = <<>>
    /\ msummary = <<>>
    /\ all_missing = <<>>
    /\ summary_json = <<>>
    /\ missing_json = <<>>
    /\ mpc = "idle"

\* No call of parse_food_line is observed.
ParseIdle ==
    /\ pline = <<>>
    /\ presult = <<>>
    /\ ppc = "idle"

\* No call of load_file_meta is observed.
MetaIdle ==
    /\ htext = <<>>
    /\ hmeta = EmptyMap
    /\ hpc = "idle"

\* No call of normalize_value is observed.
NormIdle ==
    /\ nvalue = <<>>
    /\ nout = <<>>
    /\ npc = "idle"

InitMatch ==
    /\ foods \in MatchTables
    /\ slug_by_alias = EmptyMap
    /\ aliases_list = {}
    /\ loaded = FALSE
    /\ mname = None
    /\ mresult = None
    /\ file = None
    /\ content = <<>>
    /\ cursor = 0
    /\ consumed = EmptyMap
    /\ missing = <<>>
    /\ result = None
    /\ dpc = "idle"
    /\ TdeeIdle
    /\ RunIdle /\ ParseIdle /\ MetaIdle /\ NormIdle

\* foods, slug_by_alias, aliases_list = load_foods(path)
LoadFoods ==
    /\ ~loaded
    /\ slug_by_alias' = LoadFoodsMap(foods, EmptyMap)
    /\ aliases_list' = AllAliases(foods)
    /\ loaded' = TRUE
    /\ UNCHANGED <<foods, matchVars, dayVars, tdeeVars, callVars>>

\* slug, score = match_food(name, slug_by_alias, aliases_list).  match_food
\* reads nothing but its arguments, so a behaviour observes one call.
CallMatchFood ==
    /\ loaded
    /\ mresult = None
    /\ \E name \in Names :
          /\ mname' = name
          /\ mresult' = MatchFood(name, slug_by_alias, aliases_list)
    /\ UNCHANGED <<tableVars, dayVars, tdeeVars, callVars>>

NextMatch == LoadFoods \/ CallMatchFood

SpecMatch == InitMatch /\ [][NextMatch]_vars

(***************************************************************************)
(* Inputs of the day runs.                                                 *)
(***************************************************************************)
\* The reference table of the documented example.
OatsEntry ==
    [slug |-> <<"o", "a", "t", "s">>,
     aliases |-> << <<"o", "a", "t", "s">>, <<"h", "a", "f", "e", "r", "f", "l", "o", "c", "k", "e", "n">> >>,
     name |-> <<>>,
     kcal_per_100g |-> 389, protein_g_per_100g |-> 17,
     carbs_g_per_100g |-> 66, fat_g_per_100g |-> 7, empty |-> FALSE]

\* eggs, with an alias in the plural.
EiEntry ==
    [slug |-> <<"e", "i">>,
     aliases |-> << <<"e", "i", "e", "r">> >>,
     name |-> <<>>,
     kcal_per_100g |-> 155, protein_g_per_100g |-> 13,
     carbs_g_per_100g |-> 1, fat_g_per_100g |-> 11, empty |-> FALSE]

\* An entry written as `salz: {}`.
SalzEntry ==
    [slug |-> <<"s", "a", "l", "z">>,
     aliases |-> <<  >>,
     name |-> <<>>,
     kcal_per_100g |-> 0, protein_g_per_100g |-> 0,
     carbs_g_per_100g |-> 0, fat_g_per_100g |-> 0, empty |-> TRUE]

DayTables == { <<OatsEntry>>, <<OatsEntry, EiEntry>>, <<OatsEntry, SalzEntry>> }

Oats25 == <<"2", "5", " ", "g", " ", "o", "a", "t", "s">>

LinePool ==
    { Oats25,
      <<" ", " ", "-", " ", "0", ",", "2", "5", "g", " ", "H", "a", "f", "e", "r", "f", "l", "o", "c", "k", "e", "n">>,
      <<"3", " ", "E", "i", "e", "r">>,
      <<"1", "0", "0", " ", "g", " ", "o", "a", "t">>,
      <<"1", " ", "s", "a", "l", "z">>,
      <<"K", "a", "f", "f", "e", "e", " ", "2", " ", "T", "a", "s", "s", "e", "n">>,
      <<"B", "r", "e", "a", "k", "f", "a", "s", "t">>,
      <<>> }

Bodies == {b \in SeqsUpTo(LinePool, MaxLines) : Len(b) > 0}

FilePool == { <<"l", "o", "g", "s", "/", "2", "0", "2", "4", "-", "0", "1", "-", "0", "1", ".", "m", "d">> }

(***************************************************************************)
(* The day run: load the table, then process_file over one log file.       *)
(***************************************************************************)
InitDay ==
    /\ foods \in DayTables
    /\ slug_by_alias = EmptyMap
    /\ aliases_list = {}
    /\ loaded = FALSE
    /\ mname = None
    /\ mresult = None
    /\ file \in FilePool
    /\ content \in Bodies
    /\ cursor = 0
    /\ consumed = EmptyMap
    /\ missing = <<>>
    /\ result = None
    /\ dpc = "loop"
    /\ TdeeIdle
    /\ RunIdle /\ ParseIdle /\ MetaIdle /\ NormIdle

\* One pass of the loop over the body lines (parse_logs.py:206-227).
ProcessLine ==
    /\ loaded
    /\ dpc = "loop"
    /\ cursor < Len(content)
    /\ \E out \in {LineOutcome(content[cursor + 1], file, foods, slug_by_alias, aliases_list)} :
           /\ cursor' = cursor + 1
           /\ missing' = IF out.kind = "missing" THEN Append(missing, out.entry) ELSE missing
           /\ IF out.kind = "resolved"
              THEN \E nutrients \in out.nutrients :
                      consumed' = AddNutrients(consumed, nutrients)
              ELSE consumed' = consumed
           /\ mname' = IF out.kind = "skipped" THEN mname ELSE out.name
           /\ mresult' = IF out.kind = "skipped" THEN mresult ELSE out.match
    /\ UNCHANGED <<tableVars, file, content, result, dpc, tdeeVars, callVars>>

\* The loop has run out: the record is built and returned with the missing
\* list (parse_logs.py:229-235).  round(v, 2) of a sum of hundredths is the
\* sum.
FinishFile ==
    /\ loaded
    /\ dpc = "loop"
    /\ cursor = Len(content)
    /\ result' = [file |-> Basename(file), consumed |-> [k \in DOMAIN consumed |-> consumed[k]]]
    /\ dpc' = "returned"
    /\ UNCHANGED <<tableVars, matchVars, file, content, cursor, consumed, missing, tdeeVars, callVars>>

NextDay == LoadFoods \/ ProcessLine \/ FinishFile

SpecDay == InitDay /\ [][NextDay]_vars

(***************************************************************************)
(* Rolling estimator: compute_plot_tdee.load_summary, compute_tdee, main   *)
(* and write_tdee_summary.main.  A date is a day number; an optional value *)
(* (a weight, an intake, a document on disk) is a sequence of at most one  *)
(* element, None being the empty one; a quotient is a pair                 *)
(* <<numerator, denominator>>.                                             *)
(***************************************************************************)
KcalPerKg == 7700

\* The window main asks for: compute_tdee(df, window_days=14).
MainWindowDays == 14

MinOf(S) == CHOOSE x \in S : \A y \in S : x <= y

MaxOf(S) == CHOOSE x \in S : \A y \in S : y <= x

\* load_summary, the loop over the items: one row per item.  Of an item the
\* row keeps date, meta.weight and meta.actual_calories; `item` is not a
\* column of the frame, it records the item the row was built from.
Rows(data) ==
    [i \in 1..Len(data) |->
        [date |-> data[i].date,
         weight |-> data[i].meta.weight,
         actual_calories |-> data[i].meta.actual_calories,
         item |-> i]]

Arrangements(n) == {p \in [1..n -> 1..n] : \A i, j \in 1..n : p[i] = p[j] => i = j}

\* df.sort_values("date").reset_index(drop=True): the frames it can return.
\* The default sort is quicksort, which promises no order among rows of
\* equal date.
SortValues(rows) ==
    {[i \in 1..Len(rows) |-> rows[p[i]]] :
        p \in {q \in Arrangements(Len(rows)) :
                 \A i \in 1..(Len(rows) - 1) : rows[q[i]].date <= rows[q[i + 1]].date}}

\* reindex(idx) raises ValueError on an index with duplicate labels.
HasDuplicateDates(frame) ==
    \E i, j \in 1..Len(frame) : i # j /\ frame[i].date = frame[j].date

FrameDates(frame) == {frame[i].date : i \in 1..Len(frame)}

\* The window with one day more at its start (the mutant of Window).
WindowFromDayBefore(frame, end, wd) ==
    {i \in 1..Len(frame) : end - wd <= frame[i].date /\ frame[i].date <= end}

\* window = df_full.loc[start:end] with start = end - (window_days - 1):
\* the rows of the frame the window holds (its other days are all-NaN).
Window(frame, end, wd) ==
    {i \in 1..Len(frame) : end - (wd - 1) <= frame[i].date /\ frame[i].date <= end}

\* w = window["weight"].dropna()
WeightRows(frame, end, wd) == {i \in Window(frame, end, wd) : frame[i].weight # <<>>}

\* ac = window["actual_calories"].dropna()
IntakeRows(frame, end, wd) == {i \in Window(frame, end, wd) : frame[i].actual_calories # <<>>}

\* The sum ac.mean() divides.
RECURSIVE SumIntake(_, _)
SumIntake(frame, rows) ==
    IF rows = {} THEN 0
    ELSE LET i == CHOOSE x \in rows : TRUE
         IN  frame[i].actual_calories[1] + SumIntake(frame, rows \ {i})

\* The row of a set of rows that has date d.
RowOn(frame, rows, d) == frame[CHOOSE i \in rows : frame[i].date = d]

\* w.index[0] and w.index[-1]
FirstDate(frame, rows) == MinOf({frame[i].date : i \in rows})

LastDate(frame, rows) == MaxOf({frame[i].date : i \in rows})

\* `len(w) >= 2 and len(ac) >= 1` without the intake test (the mutant of
\* Eligible).
EligibleNoIntake(frame, end, wd) ==
    /\ Cardinality(WeightRows(frame, end, wd)) >= 2
    /\ LastDate(frame, WeightRows(frame, end, wd))
          - FirstDate(frame, WeightRows(frame, end, wd)) > 0

\* The window ending on `end` gives an estimate: `len(w) >= 2 and
\* len(ac) >= 1`, and not `days <= 0`.
Eligible(frame, end, wd) ==
    /\ Cardinality(WeightRows(frame, end, wd)) >= 2
    /\ Cardinality(IntakeRows(frame, end, wd)) >= 1
    /\ LastDate(frame, WeightRows(frame, end, wd))
          - FirstDate(frame, WeightRows(frame, end, wd)) > 0

\* The record of an estimate from the weight rows w and the intake rows ac
\* of its window, with the weight difference taken first minus last (the
\* mutant of EstimateOf).
EstimateOfReversed(frame, end, w, ac) ==
    [date |-> end,
     tdee |-> << SumIntake(frame, ac) * (LastDate(frame, w) - FirstDate(frame, w))
                   - (RowOn(frame, w, FirstDate(frame, w)).weight[1]
                        - RowOn(frame, w, LastDate(frame, w)).weight[1])
                     * KcalPerKg * Cardinality(ac),
                 Cardinality(ac) * (LastDate(frame, w) - FirstDate(frame, w)) >>,
     window_start |-> FirstDate(frame, w),
     window_end |-> LastDate(frame, w),
     mean_cal |-> <<SumIntake(frame, ac), Cardinality(ac)>>,
     delta_w |-> RowOn(frame, w, FirstDate(frame, w)).weight[1]
                   - RowOn(frame, w, LastDate(frame, w)).weight[1],
     days |-> LastDate(frame, w) - FirstDate(frame, w)]

\* The record of an estimate with the intake averaged over every day from
\* the first weight to the end of the window, a day without an intake
\* counting as zero (a mutant of EstimateOf).
EstimateOfGapsAsZero(frame, end, w, ac) ==
    [date |-> end,
     tdee |-> << SumIntake(frame, ac) * (LastDate(frame, w) - FirstDate(frame, w))
                   - (RowOn(frame, w, LastDate(frame, w)).weight[1]
                        - RowOn(frame, w, FirstDate(frame, w)).weight[1])
                     * KcalPerKg * Cardinality(ac),
                 Cardinality(ac) * (LastDate(frame, w) - FirstDate(frame, w)) >>,
     window_start |-> FirstDate(frame, w),
     window_end |-> LastDate(frame, w),
     mean_cal |-> <<SumIntake(frame, ac), end - FirstDate(frame, w) + 1>>,
     delta_w |-> RowOn(frame, w, LastDate(frame, w)).weight[1]
                   - RowOn(frame, w, FirstDate(frame, w)).weight[1],
     days |-> LastDate(frame, w) - FirstDate(frame, w)]

\* The record of an estimate (compute_plot_tdee.py:69-78) from the weight
\* rows w and the intake rows ac of its window:
\*   tdee = mean_cal - delta_w * 7700.0 / days
\*        = (sum * days - delta_w * 7700 * n) / (n * days)   for mean_cal = sum / n.
EstimateOf(frame, end, w, ac) ==
    [date |-> end,
     tdee |-> << SumIntake(frame, ac) * (LastDate(frame, w) - FirstDate(frame, w))
                   - (RowOn(frame, w, LastDate(frame, w)).weight[1]
                        - RowOn(frame, w, FirstDate(frame, w)).weight[1])
                     * KcalPerKg * Cardinality(ac),
                 Cardinality(ac) * (LastDate(frame, w) - FirstDate(frame, w)) >>,
     window_start |-> FirstDate(frame, w),
     window_end |-> LastDate(frame, w),
     mean_cal |-> <<SumIntake(frame, ac), Cardinality(ac)>>,
     delta_w |-> RowOn(frame, w, LastDate(frame, w)).weight[1]
                   - RowOn(frame, w, FirstDate(frame, w)).weight[1],
     days |-> LastDate(frame, w) - FirstDate(frame, w)]

\* The loop `for end in df_full.index` up to the day `end`: the estimates
\* appended so far, df_full.index being every day from the first date of
\* the frame to its last.
RECURSIVE EstimatesUpTo(_, _, _)
EstimatesUpTo(frame, wd, end) ==
    IF end < MinOf(FrameDates(frame)) THEN <<>>
    ELSE IF Eligible(frame, end, wd)
    THEN Append(EstimatesUpTo(frame, wd, end - 1),
                EstimateOf(frame, end, WeightRows(frame, end, wd), IntakeRows(frame, end, wd)))
    ELSE EstimatesUpTo(frame, wd, end - 1)

\* The estimates of the whole loop.
Estimates(frame, wd) == EstimatesUpTo(frame, wd, MaxOf(FrameDates(frame)))

RECURSIVE Gcd(_, _)
Gcd(a, b) == IF b = 0 THEN a ELSE Gcd(b, a % b)

\* The least common multiple of the denominators of the point estimates at
\* the positions `rows`.
RECURSIVE CommonDenominator(_, _)
CommonDenominator(estimates, rows) ==
    IF rows = {} THEN 1
    ELSE LET i == CHOOSE x \in rows : TRUE
             rest == CommonDenominator(estimates, rows \ {i})
         IN  (rest \div Gcd(rest, estimates[i].tdee[2])) * estimates[i].tdee[2]

\* The sum of the point estimates at the positions `rows` in units of
\* 1 / den.
RECURSIVE SumTdee(_, _, _)
SumTdee(estimates, rows, den) ==
    IF rows = {} THEN 0
    ELSE LET i == CHOOSE x \in rows : TRUE
         IN  estimates[i].tdee[1] * (den \div estimates[i].tdee[2])
                + SumTdee(estimates, rows \ {i}, den)

\* The mean of the point estimates at the positions `rows`, a quotient; NaN
\* (the quotient 0 / 0) for no rows.
MeanTdee(estimates, rows, den) ==
    <<SumTdee(estimates, rows, den), den * Cardinality(rows)>>

\* The rows whose point estimate is a number: the rolling mean skips NaN.
NotNaN(estimates, rows) == {j \in rows : estimates[j].tdee[2] # 0}

SmoothWindow == 7  \* rolling(window=7, min_periods=1, center=True)

\* The rows of the centered window of row i in a frame of n rows: row i, the
\* rows up to (window - 1) / 2 before it and as many after it.
CenteredRows(n, i) ==
    {j \in 1..n : i - (SmoothWindow - 1) \div 2 <= j /\ j <= i + (SmoothWindow - 1) \div 2}

\* est_df["tdee_smooth"] = est_df["tdee"].rolling(...).mean(): every row
\* gets the mean over its window of rows.
Smoothed(estimates) ==
    [i \in 1..Len(estimates) |->
        [date |-> estimates[i].date,
         tdee |-> estimates[i].tdee,
         tdee_smooth |-> MeanTdee(estimates, NotNaN(estimates, CenteredRows(Len(estimates), i)),
                                  CommonDenominator(estimates,
                                      NotNaN(estimates, CenteredRows(Len(estimates), i)))),
         window_start |-> estimates[i].window_start,
         window_end |-> estimates[i].window_end,
         mean_cal |-> estimates[i].mean_cal,
         delta_w |-> estimates[i].delta_w,
         days |-> estimates[i].days]]

\* An empty list of estimates is returned like any other (the mutant of
\* AfterCompute).
AfterComputeLenient(estimates) == "computed"

\* `if est_df.empty: raise SystemExit(...)`
AfterCompute(estimates) == IF Len(estimates) = 0 THEN "aborted" ELSE "computed"

(***************************************************************************)
(* Inputs of the estimator runs.                                           *)
(***************************************************************************)
\* Four log files by what their headers give: a weight alone, an intake
\* alone, both, another weight alone.
Observations ==
    { [file |-> <<"a", ".", "m", "d">>, meta |-> [weight |-> <<71>>, actual_calories |-> <<>>]],
      [file |-> <<"b", ".", "m", "d">>, meta |-> [weight |-> <<>>, actual_calories |-> <<2100>>]],
      [file |-> <<"c", ".", "m", "d">>, meta |-> [weight |-> <<72>>, actual_calories |-> <<2200>>]],
      [file |-> <<"d", ".", "m", "d">>, meta |-> [weight |-> <<70>>, actual_calories |-> <<>>]] }

\* The days a header can date its file to.
DayPool == 0..2

\* A day record of summary.json: process_file gives every record a date.
Items == {[file |-> o.file, date |-> d, meta |-> o.meta] : o \in Observations, d \in DayPool}

\* summary.json: day records of different files, in any order.
Summaries ==
    {data \in SeqsUpTo(Items, MaxRecords) :
        \A i, j \in 1..Len(data) : data[i].file = data[j].file => i = j}

\* main asks for 14 days; a caller of compute_tdee may ask for fewer.
WindowPool == {2, MainWindowDays}

\* What outputs/data/tdee.json is before the run: not there, or a document
\* without estimates.
DocsBefore == {<<>>, <<[n_estimates |-> 0, estimates |-> <<>>]>>}

(***************************************************************************)
(* The estimator runs: compute_plot_tdee.main step by step, and            *)
(* write_tdee_summary.main run before it or after it has ended.            *)
(***************************************************************************)
InitTdee ==
    /\ foods = <<>>
    /\ slug_by_alias = EmptyMap
    /\ aliases_list = {}
    /\ loaded = FALSE
    /\ mname = None
    /\ mresult = None
    /\ file = None
    /\ content = <<>>
    /\ cursor = 0
    /\ consumed = EmptyMap
    /\ missing = <<>>
    /\ result = None
    /\ dpc = "idle"
    /\ summary \in Summaries
    /\ window_days \in WindowPool
    /\ df = <<>>
    /\ est_df = <<>>
    /\ tpc = "start"
    /\ tdee_json \in DocsBefore
    /\ tdee_png = FALSE
    /\ summary_md = <<>>
    /\ spc = "idle"
    /\ RunIdle /\ ParseIdle /\ MetaIdle /\ NormIdle

\* df = load_summary().  For an empty list the frame has no column "date"
\* and dropna(subset=["date"]) raises KeyError.
LoadSummary ==
    /\ tpc = "start"
    /\ IF Len(summary) = 0
       THEN tpc' = "crashed" /\ df' = df
       ELSE tpc' = "loaded" /\ df' \in SortValues(Rows(summary))
    /\ UNCHANGED <<tableVars, matchVars, dayVars, callVars>>
    /\ UNCHANGED <<summary, window_days, est_df, tdee_json, tdee_png, summary_md, spc>>

\* est_df = compute_tdee(df, window_days)
ComputeTdee ==
    /\ tpc = "loaded"
    /\ IF HasDuplicateDates(df)
       THEN tpc' = "crashed" /\ est_df' = est_df
       ELSE \E estimates \in {Estimates(df, window_days)} :
               /\ est_df' = Smoothed(estimates)
               /\ tpc' = AfterCompute(estimates)
    /\ UNCHANGED <<tableVars, matchVars, dayVars, callVars>>
    /\ UNCHANGED <<summary, window_days, df, tdee_json, tdee_png, summary_md, spc>>

\* write_outputs(est_df)
WriteOutputs ==
    /\ tpc = "computed"
    /\ tdee_json' = <<[n_estimates |-> Len(est_df), estimates |-> est_df]>>
    /\ tpc' = "written"
    /\ UNCHANGED <<tableVars, matchVars, dayVars, callVars>>
    /\ UNCHANGED <<summary, window_days, df, est_df, tdee_png, summary_md, spc>>

\* plot(est_df)
Plot ==
    /\ tpc = "written"
    /\ tdee_png' = TRUE
    /\ tpc' = "plotted"
    /\ UNCHANGED <<tableVars, matchVars, dayVars, callVars>>
    /\ UNCHANGED <<summary, window_days, df, est_df, tdee_json, summary_md, spc>>

\* The two prints and `return 0`.
MainReturn ==
    /\ tpc = "plotted"
    /\ tpc' = "done"
    /\ UNCHANGED <<tableVars, matchVars, dayVars, callVars>>
    /\ UNCHANGED <<summary, window_days, df, est_df, tdee_json, tdee_png, summary_md, spc>>

\* write_tdee_summary.main(), started while compute_plot_tdee is not
\* running: load() raises when tdee.json is not there, an empty estimate
\* list gives `return 2`, anything else the document and `return 0`.
WriteTdeeSummary ==
    /\ spc = "idle"
    /\ tpc \in {"start", "done", "aborted", "crashed"}
    /\ IF Len(tdee_json) = 0
       THEN spc' = "crashed" /\ summary_md' = summary_md
       ELSE IF Len(tdee_json[1].estimates) = 0
       THEN spc' = "returned 2" /\ summary_md' = summary_md
       ELSE /\ spc' = "returned 0"
            /\ summary_md' = <<[n_estimates |-> tdee_json[1].n_estimates,
                                last_date |-> tdee_json[1].estimates[Len(tdee_json[1].estimates)].date]>>
    /\ UNCHANGED <<tableVars, matchVars, dayVars, callVars>>
    /\ UNCHANGED <<summary, window_days, df, est_df, tpc, tdee_json, tdee_png>>

NextTdee ==
    \/ LoadSummary
    \/ ComputeTdee
    \/ WriteOutputs
    \/ Plot
    \/ MainReturn
    \/ WriteTdeeSummary

SpecTdee == InitTdee /\ [][NextTdee]_vars

(***************************************************************************)
(* Header values.  A value of a header mapping is a str, a float, a date   *)
(* (what YAML makes of an unquoted 2024-01-03) or None; the fields a kind   *)
(* does not use are empty, so that any two values can be compared.         *)
(***************************************************************************)
Str(t) == [kind |-> "str", text |-> t, num |-> <<0, 0>>]

Num(n) == [kind |-> "num", text |-> <<>>, num |-> n]

DateObj(t) == [kind |-> "date", text |-> t, num |-> <<0, 0>>]

NoneVal == [kind |-> "none", text |-> <<>>, num |-> <<0, 0>>]

\* to_number(v) as a header value.
NumberOrNone(text) == IF Len(ToNumber(text)) = 0 THEN NoneVal ELSE Num(ToNumber(text))

\* bool(v)
Truthy(v) ==
    \/ v.kind = "str" /\ Len(v.text) > 0
    \/ v.kind = "num" /\ v.num[1] # 0
    \/ v.kind = "date"

\* `not line.strip()`
IsBlank(line) == Len(Strip(line)) = 0

\* The position of the first ":" of s, 0 when it has none.
FirstColon(s) ==
    IF \E i \in 1..Len(s) : s[i] = ":"
    THEN CHOOSE i \in 1..Len(s) : s[i] = ":" /\ \A j \in 1..(i - 1) : s[j] # ":"
    ELSE 0

\* k.strip().lower().replace(' ', '_')
NormalKey(k) == [i \in 1..Len(Strip(k)) |-> IF Lower(Strip(k))[i] = " " THEN "_" ELSE Lower(Strip(k))[i]]

\* The index of the first blank line of lines, 0 when there is none.
FirstBlank(lines) ==
    IF \E i \in 1..Len(lines) : IsBlank(lines[i])
    THEN CHOOSE i \in 1..Len(lines) : IsBlank(lines[i]) /\ \A j \in 1..(i - 1) : ~IsBlank(lines[j])
    ELSE 0

\* lines[i:j] with 1-based inclusive positions.
Lines(lines, i, j) == [k \in 1..(j - i + 1) |-> lines[i + k - 1]]

(***************************************************************************)
(* The front-matter library as process_file and load_file_meta call it     *)
(* (python-frontmatter with its YAML handler), for documents whose block   *)
(* is a flat mapping of scalars.                                           *)
(***************************************************************************)
\* FM_BOUNDARY, ^-{3,}\s*$, on one line: three dashes or more, then blanks.
RECURSIVE DashRun(_, _)
DashRun(s, p) == IF p > Len(s) \/ s[p] # "-" THEN 0 ELSE 1 + DashRun(s, p + 1)

FmBoundary(line) ==
    /\ DashRun(line, 1) >= 3
    /\ \A i \in (DashRun(line, 1) + 1)..Len(line) : IsSpace(line[i])

\* text.strip() on the lines of a text: the blank lines at both ends go.
RECURSIVE StripLines(_)
StripLines(lines) ==
    IF Len(lines) = 0 THEN lines
    ELSE IF IsBlank(lines[1]) THEN StripLines(Tail(lines))
    ELSE IF IsBlank(lines[Len(lines)]) THEN StripLines(Lines(lines, 1, Len(lines) - 1))
    ELSE lines

\* The second boundary line of a text that opens with one, 0 when none.
ClosingBoundary(lines) ==
    IF \E j \in 2..Len(lines) : FmBoundary(lines[j])
    THEN CHOOSE j \in 2..Len(lines) :
            FmBoundary(lines[j]) /\ \A k \in 2..(j - 1) : ~FmBoundary(lines[k])
    ELSE 0

\* A line of a flat YAML mapping, `key: value`: the key ends at the first
\* colon that a blank or the end of the line follows.
MappingColon(line) ==
    IF \E i \in 1..Len(line) : line[i] = ":" /\ (i = Len(line) \/ line[i + 1] = " ")
    THEN CHOOSE i \in 1..Len(line) :
            /\ line[i] = ":" /\ (i = Len(line) \/ line[i + 1] = " ")
            /\ \A j \in 1..(i - 1) : ~(line[j] = ":" /\ line[j + 1] = " ")
    ELSE 0

YamlValueText(line) == Strip(Slice(line, MappingColon(line) + 1, Len(line)))

IsQuoted(v) == Len(v) >= 2 /\ v[1] = "\"" /\ v[Len(v)] = "\""

\* A plain scalar opens with a letter or a digit here.
IsWordChar(c) == IsDigit(c) \/ (Ord("a") <= Ord(LowerChar(c)) /\ Ord(LowerChar(c)) <= Ord("z")) \/ c = "_"

OpensPlain(line) == Len(line) > 0 /\ IsWordChar(line[1])

\* `key: value` with a plain key and one scalar as value: a second mapping
\* colon in a plain value is an error.
YamlLineOk(line) ==
    /\ OpensPlain(line)
    /\ MappingColon(line) > 1
    /\ IsQuoted(YamlValueText(line)) \/ MappingColon(YamlValueText(line)) = 0

\* A line of a plain scalar document: no mapping colon at all.
YamlPlainLine(line) == OpensPlain(line) /\ MappingColon(line) = 0

\* The timestamp scalar YYYY-MM-DD.
IsIsoDate(v) ==
    /\ Len(v) = 10
    /\ \A i \in {1, 2, 3, 4, 6, 7, 9, 10} : IsDigit(v[i])
    /\ v[5] = "-" /\ v[8] = "-"

\* The decimal scalars: an int without a leading zero, or digits "." digits.
IsInt(v) == DigitRun(v, 1) = Len(v) /\ Len(v) > 0 /\ (Len(v) = 1 \/ v[1] # "0")

IsFloat(v) ==
    /\ DigitRun(v, 1) > 0
    /\ DigitRun(v, 1) < Len(v)
    /\ v[DigitRun(v, 1) + 1] = "."
    /\ DigitRun(v, 1) + 1 + DigitRun(v, DigitRun(v, 1) + 2) = Len(v)

\* A float keeps at least one fraction digit: 70. is 70.0.
FloatValue(v) ==
    IF ToNumber(v)[2] = 0 THEN <<10 * ToNumber(v)[1], 1>> ELSE ToNumber(v)

\* The base-60 int of YAML 1.1, H:MM read as 60 * H + MM.
IsSexagesimal(v) ==
    /\ DigitRun(v, 1) > 0
    /\ v[1] # "0"
    /\ DigitRun(v, 1) < Len(v)
    /\ v[DigitRun(v, 1) + 1] = ":"
    /\ DigitRun(v, DigitRun(v, 1) + 2) \in {1, 2}
    /\ DigitRun(v, 1) + 1 + DigitRun(v, DigitRun(v, 1) + 2) = Len(v)
    /\ DigitsValue(Slice(v, DigitRun(v, 1) + 2, Len(v))) < 60

SexagesimalValue(v) ==
    60 * DigitsValue(Slice(v, 1, DigitRun(v, 1))) + DigitsValue(Slice(v, DigitRun(v, 1) + 2, Len(v)))

\* The Python value of a scalar: the text inside the quotes, None for no
\* text, a date, a number, and a str for every other plain scalar.
YamlScalar(v) ==
    IF IsQuoted(v) THEN Str(Slice(v, 2, Len(v) - 1))
    ELSE IF Len(v) = 0 THEN NoneVal
    ELSE IF IsIsoDate(v) THEN DateObj(v)
    ELSE IF IsInt(v) THEN Num(<<DigitsValue(v), 0>>)
    ELSE IF IsFloat(v) THEN Num(FloatValue(v))
    ELSE IF IsSexagesimal(v) THEN Num(<<SexagesimalValue(v), 0>>)
    ELSE Str(v)

\* The mapping of a block of `key: value` lines, blank lines passed over.
RECURSIVE YamlMapping(_, _)
YamlMapping(block, map) ==
    IF Len(block) = 0 THEN map
    ELSE IF IsBlank(Head(block)) THEN YamlMapping(Tail(block), map)
    ELSE YamlMapping(Tail(block),
            Put(map, Slice(Head(block), 1, MappingColon(Head(block)) - 1),
                YamlScalar(YamlValueText(Head(block)))))

\* yaml.load of the block: a mapping, a document that is no mapping (no
\* line, or plain text only), or an error.
YamlLoad(block) ==
    IF \A i \in 1..Len(block) : IsBlank(block[i]) \/ YamlLineOk(block[i])
    THEN [raised |-> FALSE, metadata |-> YamlMapping(block, EmptyMap)]
    ELSE IF \A i \in 1..Len(block) : IsBlank(block[i]) \/ YamlPlainLine(block[i])
    THEN [raised |-> FALSE, metadata |-> EmptyMap]
    ELSE [raised |-> TRUE, metadata |-> EmptyMap]

\* frontmatter.load(path): raised, or the metadata and the content lines.
\* A text that does not open with a boundary line, or has no second one, is
\* returned whole with no metadata; the block is loaded as YAML otherwise.
FrontMatterOf(stripped, close) ==
    IF Len(stripped) = 0 \/ ~FmBoundary(stripped[1]) \/ close = 0
    THEN [raised |-> FALSE, metadata |-> EmptyMap, content |-> stripped]
    ELSE [raised |-> YamlLoad(Lines(stripped, 2, close - 1)).raised,
          metadata |-> YamlLoad(Lines(stripped, 2, close - 1)).metadata,
          content |-> IF YamlLoad(Lines(stripped, 2, close - 1)).raised THEN <<>>
                      ELSE StripLines(Lines(stripped, close + 1, Len(stripped)))]

FrontMatterLoad(lines) ==
    FrontMatterOf(StripLines(lines), ClosingBoundary(StripLines(lines)))

(***************************************************************************)
(* parse_logs.parse_header_kv and the whole of parse_logs.process_file.    *)
(* A log file is its path and the lines of its text.                       *)
(***************************************************************************)
\* The loop of parse_header_kv: up to the first blank line, every line with
\* a colon is split on the first one.
RECURSIVE HeaderKvLoop(_, _)
HeaderKvLoop(lines, meta) ==
    IF Len(lines) = 0 \/ IsBlank(Head(lines)) THEN meta
    ELSE IF FirstColon(Strip(Head(lines))) = 0 THEN HeaderKvLoop(Tail(lines), meta)
    ELSE HeaderKvLoop(Tail(lines),
            Put(meta,
                NormalKey(Slice(Strip(Head(lines)), 1, FirstColon(Strip(Head(lines))) - 1)),
                Str(Strip(Slice(Strip(Head(lines)), FirstColon(Strip(Head(lines))) + 1,
                                Len(Strip(Head(lines))))))))

\* The known keys parse_header_kv copies under a second name as numbers.
KnownKeys ==
    { <<<<"w", "e", "i", "g", "h", "t">>, <<"w", "e", "i", "g", "h", "t", "_", "k", "g">>>>,
      <<<<"b", "o", "d", "y", "f", "a", "t", "_", "p", "e", "r", "c", "e", "n", "t", "a", "g", "e">>, <<"b", "o", "d", "y", "f", "a", "t", "_", "p", "c", "t">>>>,
      <<<<"t", "a", "r", "g", "e", "t", "_", "c", "a", "l", "o", "r", "i", "e", "s">>, <<"t", "a", "r", "g", "e", "t", "_", "c", "a", "l", "o", "r", "i", "e", "s">>>> }

\* for old, new in mapping.items(): if old in meta: meta[new] = to_number(meta[old])
WithKnownKeys(meta) ==
    [k \in (DOMAIN meta) \cup {p[2] : p \in {q \in KnownKeys : q[1] \in DOMAIN meta}} |->
        IF \E p \in KnownKeys : p[2] = k /\ p[1] \in DOMAIN meta
        THEN NumberOrNone(meta[CHOOSE o \in DOMAIN meta : <<o, k>> \in KnownKeys].text)
        ELSE meta[k]]

\* A str that to_number can read becomes the number (parse_logs.py:83-87 and
\* 174-178); every other value stays.
NumericValue(v) ==
    IF v.kind = "str" /\ Len(ToNumber(v.text)) > 0 THEN Num(ToNumber(v.text)) ELSE v

Numeric(meta) == [k \in DOMAIN meta |-> NumericValue(meta[k])]

\* parse_header_kv(text)
ParseHeaderKv(lines) == Numeric(WithKnownKeys(HeaderKvLoop(lines, EmptyMap)))

\* {str(k).strip().lower().replace(' ', '_'): v for k, v in meta.items()}
NormalKeys(meta) ==
    [k \in {NormalKey(o) : o \in DOMAIN meta} |->
        meta[CHOOSE o \in DOMAIN meta : NormalKey(o) = k]]

\* lines[header_end+1:], header_end the index of the first blank line and 0
\* when no line is blank (parse_logs.py:162-169).
Remainder(lines) ==
    IF FirstBlank(lines) = 0 THEN Lines(lines, 2, Len(lines))
    ELSE Lines(lines, FirstBlank(lines) + 1, Len(lines))

\* The header mapping and the body lines process_file works on
\* (parse_logs.py:140-170): those of the front-matter library, or, when the
\* library raised, the key:value header and the lines after the first blank
\* line.
HeaderAndBody(lines, load) ==
    IF load.raised
    THEN [meta |-> ParseHeaderKv(lines), content |-> Remainder(lines), fallback |-> TRUE]
    ELSE [meta |-> NormalKeys(load.metadata), content |-> load.content, fallback |-> FALSE]

\* s.replace('.md', '')
RECURSIVE DropMd(_)
DropMd(s) ==
    IF Len(s) = 0 THEN s
    ELSE IF Len(s) >= 3 /\ Slice(s, 1, 3) = <<".", "m", "d">> THEN DropMd(Slice(s, 4, Len(s)))
    ELSE <<Head(s)>> \o DropMd(Tail(s))

\* date = meta.get('date') or os.path.basename(path).replace('.md', '')
ResolveDate(meta, path) ==
    IF <<"d", "a", "t", "e">> \in DOMAIN meta /\ Truthy(meta[<<"d", "a", "t", "e">>])
    THEN meta[<<"d", "a", "t", "e">>]
    ELSE Str(DropMd(Basename(path)))

\* s.startswith(prefix)
StartsWith(s, prefix) == Len(s) >= Len(prefix) /\ Slice(s, 1, Len(prefix)) = prefix

\* The first line that is the heading Status or Agenda, 0 when none.
IsStatusHeading(line) == Lower(Strip(line)) \in {<<"s", "t", "a", "t", "u", "s">>, <<"a", "g", "e", "n", "d", "a">>}

StatusHeading(lines) ==
    IF \E i \in 1..Len(lines) : IsStatusHeading(lines[i])
    THEN CHOOSE i \in 1..Len(lines) :
            IsStatusHeading(lines[i]) /\ \A j \in 1..(i - 1) : ~IsStatusHeading(lines[j])
    ELSE 0

\* The lines collected after the heading, joined by blanks: up to a blank
\* line or a line that opens with '#' or '**'.
RECURSIVE StatusBuf(_, _)
StatusBuf(lines, i) ==
    IF i > Len(lines) \/ IsBlank(lines[i]) THEN <<>>
    ELSE IF StartsWith(Strip(lines[i]), <<"#">>) \/ StartsWith(Strip(lines[i]), <<"*", "*">>)
    THEN <<>>
    ELSE IF i + 1 > Len(lines) \/ IsBlank(lines[i + 1])
            \/ StartsWith(Strip(lines[i + 1]), <<"#">>)
            \/ StartsWith(Strip(lines[i + 1]), <<"*", "*">>)
    THEN Strip(lines[i])
    ELSE Strip(lines[i]) \o <<" ">> \o StatusBuf(lines, i + 1)

\* The longest status text kept whole, and the length it is cut to.
StatusMax == 120
StatusCut == 117

\* The status text never cut (the mutant of StatusText).
StatusTextUncut(lines) ==
    IF StatusHeading(lines) = 0 THEN <<>>
    ELSE StatusBuf(lines, StatusHeading(lines) + 1)

\* status_text (parse_logs.py:183-202), the empty text for None.
StatusText(lines) ==
    IF StatusHeading(lines) = 0 THEN <<>>
    ELSE IF Len(StatusBuf(lines, StatusHeading(lines) + 1)) > StatusMax
    THEN Slice(StatusBuf(lines, StatusHeading(lines) + 1), 1, StatusCut) \o <<".", ".", ".">>
    ELSE StatusBuf(lines, StatusHeading(lines) + 1)

\* if status_text: meta['status'] = status_text
WithStatus(meta, status) == IF Len(status) = 0 THEN meta ELSE Put(meta, <<"s", "t", "a", "t", "u", "s">>, Str(status))

\* The totals and the missing list after one more line of the body loop,
\* from every way the loop left the lines before it.
AfterLine(befores, out) ==
    IF out.kind = "resolved"
    THEN {[consumed |-> AddNutrients(b.consumed, n), missing |-> b.missing] :
             b \in befores, n \in out.nutrients}
    ELSE IF out.kind = "missing"
    THEN {[consumed |-> b.consumed, missing |-> Append(b.missing, out.entry)] : b \in befores}
    ELSE befores

\* The body loop left at the first line that goes to the missing list (the
\* mutant of BodyLoop).
RECURSIVE BodyLoopStopsAtMissing(_, _, _, _, _, _)
BodyLoopStopsAtMissing(lines, n, path, fs, map, aliases) ==
    IF n = 0 THEN {[consumed |-> EmptyMap, missing |-> <<>>]}
    ELSE IF \E i \in 1..(n - 1) : LineOutcome(lines[i], path, fs, map, aliases).kind = "missing"
    THEN BodyLoopStopsAtMissing(lines, n - 1, path, fs, map, aliases)
    ELSE AfterLine(BodyLoopStopsAtMissing(lines, n - 1, path, fs, map, aliases),
                   LineOutcome(lines[n], path, fs, map, aliases))

\* The body loop (parse_logs.py:206-227) over the first n lines.
RECURSIVE BodyLoop(_, _, _, _, _, _)
BodyLoop(lines, n, path, fs, map, aliases) ==
    IF n = 0 THEN {[consumed |-> EmptyMap, missing |-> <<>>]}
    ELSE AfterLine(BodyLoop(lines, n - 1, path, fs, map, aliases),
                   LineOutcome(lines[n], path, fs, map, aliases))

\* The (result, missing) pairs process_file can return, given the header
\* and body it works on; content is post.content as the body loop read it.
ResultsOf(path, hb, fs, map, aliases) ==
    {[result |-> [file |-> Basename(path),
                  date |-> ResolveDate(hb.meta, path),
                  meta |-> WithStatus(Numeric(hb.meta), StatusText(hb.content)),
                  consumed |-> b.consumed],
      missing |-> b.missing,
      content |-> hb.content] :
        b \in BodyLoop(hb.content, Len(hb.content), path, fs, map, aliases)}

\* process_file(path, foods, slug_by_alias, aliases_list)
ProcessFile(f, fs, map, aliases) ==
    ResultsOf(f.path, HeaderAndBody(f.lines, FrontMatterLoad(f.lines)), fs, map, aliases)

(***************************************************************************)
(* Inputs of the parsing run: the files under protocol/ and foods.yaml.    *)
(***************************************************************************)
MaxFiles == 3        \* log files under protocol/

\* A key:value header closed by a blank line, no front matter.
PlainWithHeader ==
    [path |-> <<"p", "r", "o", "t", "o", "c", "o", "l", "/", "a", "/", "2", "0", "2", "4", "-", "0", "1", "-", "0", "2", ".", "m", "d">>,
     lines |-> << <<"w", "e", "i", "g", "h", "t", ":", " ", "7", "0", " ", "k", "g">>, <<>>, Oats25 >>]

\* No header at all, and no line the table resolves.
PlainUnresolved ==
    [path |-> <<"p", "r", "o", "t", "o", "c", "o", "l", "/", "b", "/", "2", "0", "2", "4", "-", "0", "1", "-", "0", "1", ".", "m", "d">>,
     lines |-> << <<"K", "a", "f", "f", "e", "e", " ", "2", " ", "T", "a", "s", "s", "e", "n">> >>]

\* No header, and a name without a date.
PlainNotes ==
    [path |-> <<"p", "r", "o", "t", "o", "c", "o", "l", "/", "n", "o", "t", "e", "s", ".", "m", "d">>,
     lines |-> << <<"3", " ", "E", "i", "e", "r">>, <<"S", "t", "a", "t", "u", "s">>, <<"r", "u", "h", "i", "g">> >>]

\* Front matter with the date as a quoted string.
FrontQuoted ==
    [path |-> <<"p", "r", "o", "t", "o", "c", "o", "l", "/", "c", ".", "m", "d">>,
     lines |-> << <<"-", "-", "-">>, <<"D", "a", "t", "e", ":", " ", "\"", "2", "0", "2", "4", "-", "0", "1", "-", "0", "1", "\"">>, <<"w", "e", "i", "g", "h", "t", ":", " ", "7", "0", ",", "5", " ", "k", "g">>, <<"-", "-", "-">>, Oats25 >>]

\* Front matter with the date as YAML reads it unquoted.
FrontDate ==
    [path |-> <<"p", "r", "o", "t", "o", "c", "o", "l", "/", "d", ".", "m", "d">>,
     lines |-> << <<"-", "-", "-">>, <<"d", "a", "t", "e", ":", " ", "2", "0", "2", "4", "-", "0", "1", "-", "0", "3">>, <<"-", "-", "-">>, <<>>, <<"3", " ", "E", "i", "e", "r">> >>]

\* Front matter YAML cannot load (`note: a: b`), over a blank line and a body.
FrontBroken ==
    [path |-> <<"p", "r", "o", "t", "o", "c", "o", "l", "/", "e", ".", "m", "d">>,
     lines |-> << <<"-", "-", "-">>, <<"W", "e", "i", "g", "h", "t", ":", " ", "7", "0", " ", "k", "g">>, <<"n", "o", "t", "e", ":", " ", "a", ":", " ", "b">>, <<"-", "-", "-">>, <<>>, Oats25, <<"1", " ", "s", "a", "l", "z">> >>]

LogFiles == {PlainWithHeader, PlainUnresolved, PlainNotes, FrontQuoted, FrontDate, FrontBroken}

Corpora == {c \in SUBSET LogFiles : Cardinality(c) <= MaxFiles}

\* data/foods.yaml: absent or unreadable (the empty tuple), or the table it
\* holds; an empty file holds the empty table.
RunTable == <<OatsEntry, EiEntry>>

FoodsFiles == { <<>>, << <<>> >>, <<RunTable>> }

(***************************************************************************)
(* The parsing run: parse_logs.main.                                       *)
(***************************************************************************)
\* sorted(paths): the files in ascending order of their paths.
RECURSIVE SortedByPath(_)
SortedByPath(fset) ==
    IF fset = {} THEN <<>>
    ELSE LET first == CHOOSE f \in fset : \A g \in fset : g = f \/ StrLess(f.path, g.path)
         IN  <<first>> \o SortedByPath(fset \ {first})

\* json.dump raises TypeError on a datetime.date.
Serializable(v) == v.kind # "date"

RecordSerializable(r) ==
    /\ Serializable(r.date)
    /\ \A k \in DOMAIN r.meta : Serializable(r.meta[k])

\* The table, the matcher and the estimator scripts are not part of the run.
LogIdle ==
    /\ mname = None
    /\ mresult = None
    /\ file = None
    /\ content = <<>>
    /\ cursor = 0
    /\ consumed = EmptyMap
    /\ missing = <<>>
    /\ result = None
    /\ dpc = "idle"

InitRun ==
    /\ foods = <<>>
    /\ slug_by_alias = EmptyMap
    /\ aliases_list = {}
    /\ loaded = FALSE
    /\ LogIdle
    /\ TdeeIdle
    /\ foods_yaml \in FoodsFiles
    /\ protocol \in Corpora
    /\ files = <<>>
    /\ msummary = <<>>
    /\ all_missing = <<>>
    /\ summary_json = <<>>
    /\ missing_json = <<>>
    /\ mpc = "start"
    /\ ParseIdle /\ MetaIdle /\ NormIdle

\* load_foods raises when foods.yaml cannot be opened or loaded
\* (parse_logs.py:30-31, 239): the run ends in a traceback.
MainLoadFails ==
    /\ mpc = "start"
    /\ foods_yaml = <<>>
    /\ mpc' = "crashed"
    /\ UNCHANGED <<tableVars, matchVars, dayVars, tdeeVars>>
    /\ UNCHANGED <<foods_yaml, protocol, files, msummary, all_missing, summary_json, missing_json>>
    /\ UNCHANGED <<parseVars, metaVars, normVars>>

\* foods.yaml is loaded (`raw or {}`) and the files are listed
\* (parse_logs.py:239-245); without files the run prints a note and goes on.
MainLoadFoods ==
    /\ mpc = "start"
    /\ foods_yaml # <<>>
    /\ foods' = foods_yaml[1]
    /\ slug_by_alias' = LoadFoodsMap(foods_yaml[1], EmptyMap)
    /\ aliases_list' = AllAliases(foods_yaml[1])
    /\ loaded' = TRUE
    /\ files' = SortedByPath(protocol)
    /\ mpc' = "loop"
    /\ UNCHANGED <<matchVars, dayVars, tdeeVars>>
    /\ UNCHANGED <<foods_yaml, protocol, msummary, all_missing, summary_json, missing_json>>
    /\ UNCHANGED <<parseVars, metaVars, normVars>>

\* One pass of `for path in files` (parse_logs.py:246-249).
MainProcessFile ==
    /\ mpc = "loop"
    /\ files # <<>>
    /\ \E o \in ProcessFile(Head(files), foods, slug_by_alias, aliases_list) :
          /\ msummary' = Append(msummary, o.result)
          /\ all_missing' = all_missing \o o.missing
    /\ files' = Tail(files)
    /\ UNCHANGED <<tableVars, matchVars, dayVars, tdeeVars>>
    /\ UNCHANGED <<foods_yaml, protocol, summary_json, missing_json, mpc>>
    /\ UNCHANGED <<parseVars, metaVars, normVars>>

\* json.dump(summary, f) (parse_logs.py:251-253); a date among the values
\* ends the run in a TypeError with no document written out.
MainWriteSummary ==
    /\ mpc = "loop"
    /\ files = <<>>
    /\ IF \A i \in 1..Len(msummary) : RecordSerializable(msummary[i])
       THEN summary_json' = <<msummary>> /\ mpc' = "summary written"
       ELSE summary_json' = summary_json /\ mpc' = "crashed"
    /\ UNCHANGED <<tableVars, matchVars, dayVars, tdeeVars>>
    /\ UNCHANGED <<foods_yaml, protocol, files, msummary, all_missing, missing_json>>
    /\ UNCHANGED <<parseVars, metaVars, normVars>>

\* json.dump(all_missing, f) (parse_logs.py:254-259).
MainWriteMissing ==
    /\ mpc = "summary written"
    /\ missing_json' = <<all_missing>>
    /\ mpc' = "done"
    /\ UNCHANGED <<tableVars, matchVars, dayVars, tdeeVars>>
    /\ UNCHANGED <<foods_yaml, protocol, files, msummary, all_missing, summary_json>>
    /\ UNCHANGED <<parseVars, metaVars, normVars>>

NextRun ==
    \/ MainLoadFails
    \/ MainLoadFoods
    \/ MainProcessFile
    \/ MainWriteSummary
    \/ MainWriteMissing

SpecRun == InitRun /\ [][NextRun]_vars

(***************************************************************************)
(* Calls of parse_food_line, and process_file over bodies of one line.     *)
(***************************************************************************)
MaxLineLen == 4      \* characters of a line handed to parse_food_line
MaxBodyLineLen == 3  \* characters of the line of a one-line body

ParseChars == {"2", "5", ",", ".", " ", "g", "x", "-"}

\* Lines with the longer unit spellings, upper case and the other bullet.
LongLines ==
    { <<"2", "5", "g", "r", "a", "m", "m", " ", "o", "a", "t", "s">>, <<"2", "5", " ", "G", "R", "A", "M", "M", " ", "O", "a", "t", "s">>, <<"*", " ", "2", "5", " ", "g", ".", " ", "o", "a", "t", "s">>, <<"2", ",", "5", " ", "G", " ", "x">>,
      <<"K", "a", "f", "f", "e", "e", " ", "2", ",", "5", " ", "T", "a", "s", "s", "e", "n">>, <<"-", " ", "-", " ", "5", " ", "g", " ", "x">> }

ParseLines == SeqsUpTo(ParseChars, MaxLineLen) \cup LinePool \cup LongLines

InitParse ==
    /\ foods = <<>>
    /\ slug_by_alias = EmptyMap
    /\ aliases_list = {}
    /\ loaded = FALSE
    /\ LogIdle
    /\ TdeeIdle
    /\ RunIdle
    /\ pline \in ParseLines
    /\ presult = <<>>
    /\ ppc = "ready"
    /\ MetaIdle /\ NormIdle

\* parsed = parse_food_line(line)
CallParseFoodLine ==
    /\ ppc = "ready"
    /\ presult' = ParseFoodLine(pline)
    /\ ppc' = "returned"
    /\ UNCHANGED <<tableVars, matchVars, dayVars, tdeeVars>>
    /\ UNCHANGED <<runVars, pline, metaVars, normVars>>

NextParse == CallParseFoodLine

SpecParse == InitParse /\ [][NextParse]_vars

\* A log file whose body is one line.
OneLineBodies == {<<l>> : l \in SeqsUpTo(ParseChars, MaxBodyLineLen) \cup LongLines}

InitLine ==
    /\ foods = RunTable
    /\ slug_by_alias = EmptyMap
    /\ aliases_list = {}
    /\ loaded = FALSE
    /\ mname = None
    /\ mresult = None
    /\ file \in FilePool
    /\ content \in OneLineBodies
    /\ cursor = 0
    /\ consumed = EmptyMap
    /\ missing = <<>>
    /\ result = None
    /\ dpc = "loop"
    /\ TdeeIdle
    /\ RunIdle /\ ParseIdle /\ MetaIdle /\ NormIdle

SpecLine == InitLine /\ [][NextDay]_vars

(***************************************************************************)
(* Header extractor: aggregate_protocol.parse_header_kv_from_text and      *)
(* load_file_meta.  The returned mapping takes key text to value text.     *)
(***************************************************************************)
\* str(n) for a natural number n.
DigitText(d) == <<CHOOSE c \in Chars : IsDigit(c) /\ Ord(c) - Ord("0") = d>>

RECURSIVE IntText(_)
IntText(n) == IF n < 10 THEN DigitText(n) ELSE IntText(n \div 10) \o DigitText(n % 10)

\* The e fraction digits of m / 10^e.
RECURSIVE FractionText(_, _)
FractionText(m, e) ==
    IF e = 0 THEN <<>> ELSE FractionText(m \div 10, e - 1) \o DigitText(m % 10)

\* repr of the float m / 10^e: the zeros at the end of the fraction go, one
\* fraction digit stays.
RECURSIVE FloatText(_, _)
FloatText(m, e) ==
    IF e > 1 /\ m % 10 = 0 THEN FloatText(m \div 10, e - 1)
    ELSE IntText(m \div Pow10(e)) \o <<".">> \o FractionText(m % Pow10(e), e)

\* str(v) of a front-matter value: an int has no fraction digits, a float
\* has some.
StrOf(v) ==
    IF v.kind = "none" THEN <<"N", "o", "n", "e">>
    ELSE IF v.kind = "num"
    THEN IF v.num[2] = 0 THEN IntText(v.num[1]) ELSE FloatText(v.num[1], v.num[2])
    ELSE v.text

\* parse_header_kv_from_text(text): up to the first blank line, every line
\* with a colon is split on the first one; the key is trimmed, the value
\* is trimmed and its commas become dots.
RECURSIVE HeaderKvFromText(_, _)
HeaderKvFromText(lines, meta) ==
    IF Len(lines) = 0 \/ IsBlank(Head(lines)) THEN meta
    ELSE IF FirstColon(Strip(Head(lines))) = 0 THEN HeaderKvFromText(Tail(lines), meta)
    ELSE HeaderKvFromText(Tail(lines),
            Put(meta,
                Strip(Slice(Strip(Head(lines)), 1, FirstColon(Strip(Head(lines))) - 1)),
                CommaToDot(Strip(Slice(Strip(Head(lines)), FirstColon(Strip(Head(lines))) + 1,
                                       Len(Strip(Head(lines))))))))

\* DELIM_RE, ^[^\w\s]+$, on a trimmed line.
IsDelimiter(line) ==
    /\ Len(Strip(line)) > 0
    /\ \A i \in 1..Len(Strip(line)) : ~IsWordChar(Strip(line)[i]) /\ ~IsSpace(Strip(line)[i])

\* The index of the first line that is not blank, 0 when all are.
FirstNonBlank(lines) ==
    IF \E i \in 1..Len(lines) : ~IsBlank(lines[i])
    THEN CHOOSE i \in 1..Len(lines) : ~IsBlank(lines[i]) /\ \A j \in 1..(i - 1) : IsBlank(lines[j])
    ELSE 0

\* The first delimiter line after line i, 0 when none.
ClosingDelimiter(lines, i) ==
    IF \E j \in (i + 1)..Len(lines) : IsDelimiter(lines[j])
    THEN CHOOSE j \in (i + 1)..Len(lines) :
            IsDelimiter(lines[j]) /\ \A k \in (i + 1)..(j - 1) : ~IsDelimiter(lines[k])
    ELSE 0

\* The text part of load_file_meta (aggregate_protocol.py:89-108).
MetaFromText(lines, i) ==
    IF i > 0 /\ IsDelimiter(lines[i]) /\ ClosingDelimiter(lines, i) > 0
    THEN HeaderKvFromText(Lines(lines, i + 1, ClosingDelimiter(lines, i) - 1), EmptyMap)
    ELSE HeaderKvFromText(lines, EmptyMap)

\* load_file_meta(path), given what frontmatter.load makes of the file.
MetaOf(lines, load) ==
    IF ~load.raised /\ DOMAIN load.metadata # {}
    THEN [k \in DOMAIN load.metadata |-> StrOf(load.metadata[k])]
    ELSE MetaFromText(lines, FirstNonBlank(lines))

LoadFileMeta(lines) == MetaOf(lines, FrontMatterLoad(lines))

(***************************************************************************)
(* Calls of load_file_meta.                                                *)
(***************************************************************************)
MaxHeaderLines == 4  \* lines of a file handed to load_file_meta

HeaderLinePool ==
    { <<"-", "-", "-">>, <<"*", "*", "*">>, <<"s", "l", "e", "e", "p", ":", " ", "7", ":", "3", "0">>, <<"W", ":", " ", "7", "0", ",", "5", " ", "k", "g">>, <<"n", "o", "t", "e">>, <<>> }

HeaderTexts == SeqsUpTo(HeaderLinePool, MaxHeaderLines)

InitMeta ==
    /\ foods = <<>>
    /\ slug_by_alias = EmptyMap
    /\ aliases_list = {}
    /\ loaded = FALSE
    /\ LogIdle
    /\ TdeeIdle
    /\ RunIdle /\ ParseIdle
    /\ htext \in HeaderTexts
    /\ hmeta = EmptyMap
    /\ hpc = "ready"
    /\ NormIdle

\* meta = load_file_meta(path)
CallLoadFileMeta ==
    /\ hpc = "ready"
    /\ hmeta' = LoadFileMeta(htext)
    /\ hpc' = "returned"
    /\ UNCHANGED <<tableVars, matchVars, dayVars, tdeeVars>>
    /\ UNCHANGED <<runVars, parseVars, htext, normVars>>

NextMeta == CallLoadFileMeta

SpecMeta == InitMeta /\ [][NextMeta]_vars

(***************************************************************************)
(* Value normaliser: aggregate_protocol.normalize_value.  The argument is  *)
(* text, or <<None>> for the None argument; the result is text.            *)
(***************************************************************************)
QuoteChars == {"\"", "'"}

\* s.strip('"\'')
RECURSIVE StripQuotes(_)
StripQuotes(s) ==
    IF Len(s) = 0 THEN s
    ELSE IF s[1] \in QuoteChars THEN StripQuotes(Tail(s))
    ELSE IF s[Len(s)] \in QuoteChars THEN StripQuotes(Slice(s, 1, Len(s) - 1))
    ELSE s

TimeDigits == 2  \* the most digits of either part of ^\d{1,2}:\d{1,2}$

\* re.match(r'^(?P<h>\d{1,2}):(?P<m>\d{1,2})$', s)
IsTime(s) ==
    /\ DigitRun(s, 1) \in 1..TimeDigits
    /\ DigitRun(s, 1) + 1 <= Len(s)
    /\ s[DigitRun(s, 1) + 1] = ":"
    /\ DigitRun(s, DigitRun(s, 1) + 2) \in 1..TimeDigits
    /\ DigitRun(s, 1) + 1 + DigitRun(s, DigitRun(s, 1) + 2) = Len(s)

\* 60 * int(h) + int(mm): the minutes of a time text.
TimeMinutes(s) ==
    60 * DigitsValue(Slice(s, 1, DigitRun(s, 1)))
       + DigitsValue(Slice(s, DigitRun(s, 1) + 2, Len(s)))

\* The hundredths cut off instead of rounded (the mutant of HoursCents).
HoursCentsCut(n) == {(100 * n) \div 60}

\* f"{dec:.2f}" in hundredths, dec = h + mm / 60.0 for n minutes in all.
HoursCents(n) == RoundChoices(100 * n, 60)

\* The text of c hundredths with two fraction digits.
TwoDecimals(c) == IntText(c \div 100) \o <<".">> \o FractionText(c % 100, 2)

\* The time branch: whole hours print as an integer, others with two
\* decimals.
TimeTextsOf(n) ==
    IF n % 60 = 0 THEN {IntText(n \div 60)}
    ELSE {TwoDecimals(c) : c \in HoursCents(n)}

\* The first position of s that holds a digit or a sign, 0 when none does:
\* where [^0-9+-]*? has to stop.
FirstNumberChar(s) ==
    IF \E i \in 1..Len(s) : IsDigit(s[i]) \/ s[i] \in {"+", "-"}
    THEN CHOOSE i \in 1..Len(s) :
            /\ IsDigit(s[i]) \/ s[i] \in {"+", "-"}
            /\ \A j \in 1..(i - 1) : ~(IsDigit(s[j]) \/ s[j] \in {"+", "-"})
    ELSE 0

\* A character of the class [%a-zA-Z].
IsUnitChar(c) == c = "%" \/ LowerChar(c) # c \/ (Ord("a") <= Ord(c) /\ Ord(c) <= Ord("z"))

\* (?:\s*(?P<unit>[%a-zA-Z]+))?$ from position r on.
UnitOrEnd(s, r) ==
    \/ r > Len(s)
    \/ /\ r + SpaceRun(s, r) <= Len(s)
       /\ \A i \in (r + SpaceRun(s, r))..Len(s) : IsUnitChar(s[i])

\* The match of the number pattern at q, the first digit expected there:
\* nd digits, a separator or none, nf digits, then a unit or the end.
NumberShape(s, q, nd, sep, nf) ==
    [ok |-> nd > 0 /\ UnitOrEnd(s, q + nd + sep + nf),
     m |-> DigitsValue(Slice(s, q, q + nd - 1)) * Pow10(nf)
              + DigitsValue(Slice(s, q + nd + sep, q + nd + sep + nf - 1)),
     e |-> nf]

SeparatorAt(s, p) == IF p <= Len(s) /\ s[p] \in {".", ","} THEN 1 ELSE 0

NumberAtDigits(s, q, nd) ==
    NumberShape(s, q, nd, SeparatorAt(s, q + nd),
                DigitRun(s, q + nd + SeparatorAt(s, q + nd)))

\* re.match(r'^[^0-9+-]*?(?P<num>[+-]?[0-9]+[\.,]?[0-9]*)(?:\s*(?P<unit>...))?$', s)
\* with the sign found at p (sign = 1) or not (sign = 0).
NumberAt(s, p, sign) == NumberAtDigits(s, p + sign, DigitRun(s, p + sign))

WholeTolerance == 9  \* the decimal places of the tolerance 1e-9

\* r / 10^e < 1e-9
WithinTolerance(r, e) == r = 0 \/ (e > WholeTolerance /\ r < Pow10(e - WholeTolerance))

\* abs(f - round(f)) < 1e-9 for f = m / 10^e.
IsWhole(m, e) ==
    \/ WithinTolerance(m % Pow10(e), e)
    \/ WithinTolerance(Pow10(e) - (m % Pow10(e)), e)

\* int(round(f)) for a whole f = m / 10^e.
WholeOf(m, e) ==
    IF WithinTolerance(m % Pow10(e), e) THEN m \div Pow10(e) ELSE m \div Pow10(e) + 1

\* The whole number printed like any other float (the mutant of
\* NumberTextsOf).
NumberTextsAsFloat(m, e, minus) ==
    {(IF minus = 1 THEN <<"-">> ELSE <<>>) \o FloatText(c, 2) :
        c \in RoundChoices(100 * m, Pow10(e))}

\* The number branch: str(int(round(f))) of a whole f, str(round(f, 2))
\* otherwise; minus is 1 for a number with a minus sign.
NumberTextsOf(m, e, minus) ==
    IF IsWhole(m, e)
    THEN {(IF minus = 1 /\ WholeOf(m, e) # 0 THEN <<"-">> ELSE <<>>) \o IntText(WholeOf(m, e))}
    ELSE {(IF minus = 1 THEN <<"-">> ELSE <<>>) \o FloatText(c, 2) :
             c \in RoundChoices(100 * m, Pow10(e))}

\* The branches of normalize_value after the quotes are gone.
NormalizeStripped(s, p, sign) ==
    IF IsTime(s) THEN TimeTextsOf(TimeMinutes(s))
    ELSE IF p > 0 /\ NumberAt(s, p, sign).ok
    THEN NumberTextsOf(NumberAt(s, p, sign).m, NumberAt(s, p, sign).e,
                       IF s[p] = "-" THEN 1 ELSE 0)
    ELSE {s}

NormalizeText(s) ==
    NormalizeStripped(s, FirstNumberChar(s),
                      IF FirstNumberChar(s) > 0 /\ s[FirstNumberChar(s)] \in {"+", "-"}
                      THEN 1 ELSE 0)

\* normalize_value(v): the texts it can return.
NormalizeValue(v) ==
    IF v = <<None>> THEN {<<>>}
    ELSE IF Len(Strip(v)) = 0 THEN {<<>>}
    ELSE NormalizeText(StripQuotes(Strip(v)))

(***************************************************************************)
(* Calls of normalize_value.                                               *)
(***************************************************************************)
MaxValueLen == 3  \* characters of a value that is not built as a time

Digits == {c \in Chars : IsDigit(c)}

\* One or two digits.
DigitTexts == UNION {[1..k -> Digits] : k \in 1..TimeDigits}

\* Every H:MM, HH:MM, H:M and HH:M.
TimeTexts == {h \o <<":">> \o mm : h \in DigitTexts, mm \in DigitTexts}

NormChars == {"7", "5", ":", ",", "-", "\"", " ", "h"}

\* Header values as the logs write them: numbers with units, signs and
\* fractions, a quoted time, a date, numbers inside other text.
NormSamples ==
    { <<"7", "0", ",", "0", " ", "k", "g">>, <<"1", "2", ".", "5", "%">>, <<"7", "0", ",", "5", "k", "g">>, <<"+", "5">>, <<"-", "7", ",", "5", " ", "h">>, <<"5", ".">>, <<"5", " ", "%">>,
      <<"0", ".", "0", "0", "1">>, <<"1", ".", "0", "0", "5">>, <<"7", ".", "5", "5", "5">>, <<"\"", "7", ":", "3", "0", "\"">>, <<"7", ":", "3", "0", " ", "h">>, <<"2", "0", "2", "4", "-", "0", "1", "-", "0", "3">>,
      <<"c", "a", " ", "7", "0", " ", "k", "g">>, <<"7", "0", " ", "k", "g", " ", "n", "e", "t", "t", "o">>, <<".", "5">>, <<"1", "e", "5">>, <<"o", "k">> }

NormValues ==
    TimeTexts \cup SeqsUpTo(NormChars, MaxValueLen) \cup NormSamples \cup {<<None>>}

InitNorm ==
    /\ foods = <<>>
    /\ slug_by_alias = EmptyMap
    /\ aliases_list = {}
    /\ loaded = FALSE
    /\ LogIdle
    /\ TdeeIdle
    /\ RunIdle /\ ParseIdle /\ MetaIdle
    /\ nvalue \in NormValues
    /\ nout = <<>>
    /\ npc = "ready"

\* nout = normalize_value(nvalue)
CallNormalizeValue ==
    /\ npc = "ready"
    /\ \E out \in NormalizeValue(nvalue) : nout' = out
    /\ npc' = "returned"
    /\ UNCHANGED <<tableVars, matchVars, dayVars, tdeeVars>>
    /\ UNCHANGED <<runVars, parseVars, metaVars, nvalue>>

NextNorm == CallNormalizeValue

SpecNorm == InitNorm /\ [][NextNorm]_vars

(***************************************************************************)
(* Runs of parse_logs.main over one log file with a status section.        *)
(***************************************************************************)
MaxStatusLines == 4  \* lines of the log file

\* A line of n letters.
LetterLine(n) == [i \in 1..n |-> IF i % 2 = 1 THEN "a" ELSE "b"]

\* Two of the first with a blank between them are 121 characters, the first
\* and the second 120.
LongLine == LetterLine(60)

LongLineLess == LetterLine(59)

StatusLinePool ==
    { <<"S", "t", "a", "t", "u", "s">>, <<" ", "A", "G", "E", "N", "D", "A", " ">>, <<>>, <<"#", " ", "x">>, <<"*", "*", "b">>, LongLine, LongLineLess }

StatusCorpora ==
    {{[path |-> <<"p", "r", "o", "t", "o", "c", "o", "l", "/", "s", ".", "m", "d">>, lines |-> body]} :
        body \in SeqsUpTo(StatusLinePool, MaxStatusLines)}

InitStatus ==
    /\ foods = <<>>
    /\ slug_by_alias = EmptyMap
    /\ aliases_list = {}
    /\ loaded = FALSE
    /\ LogIdle
    /\ TdeeIdle
    /\ foods_yaml \in FoodsFiles
    /\ protocol \in StatusCorpora
    /\ foods_yaml = <<RunTable>> \/ \A f \in protocol : Len(f.lines) = 0
    /\ files = <<>>
    /\ msummary = <<>>
    /\ all_missing = <<>>
    /\ summary_json = <<>>
    /\ missing_json = <<>>
    /\ mpc = "start"
    /\ ParseIdle /\ MetaIdle /\ NormIdle

SpecStatus == InitStatus /\ [][NextRun]_vars

(***************************************************************************)
(* Runs of parse_logs.main over log files that record a weight, and what   *)
(* compute_plot_tdee.load_summary reads from their records.                *)
(***************************************************************************)
\* Front matter that spells the key weight.
FrontWeight ==
    [path |-> <<"p", "r", "o", "t", "o", "c", "o", "l", "/", "2", "0", "2", "4", "-", "0", "1", "-", "0", "1", ".", "m", "d">>,
     lines |-> << <<"-", "-", "-">>, <<"w", "e", "i", "g", "h", "t", ":", " ", "7", "0", ",", "5", " ", "k", "g">>, <<"-", "-", "-">>, Oats25 >>]

\* Front matter that spells the key weight_kg.
FrontWeightKg ==
    [path |-> <<"p", "r", "o", "t", "o", "c", "o", "l", "/", "2", "0", "2", "4", "-", "0", "1", "-", "0", "2", ".", "m", "d">>,
     lines |-> << <<"-", "-", "-">>, <<"w", "e", "i", "g", "h", "t", "_", "k", "g", ":", " ", "7", "1">>, <<"-", "-", "-">>, Oats25 >>]

\* Front matter that spells the key Weight kg.
FrontWeightBlank ==
    [path |-> <<"p", "r", "o", "t", "o", "c", "o", "l", "/", "2", "0", "2", "4", "-", "0", "1", "-", "0", "3", ".", "m", "d">>,
     lines |-> << <<"-", "-", "-">>, <<"W", "e", "i", "g", "h", "t", " ", "k", "g", ":", " ", "7", "2">>, <<"-", "-", "-">>, Oats25 >>]

\* A key:value header read after the front matter failed to load, the key
\* spelled Weight.
BrokenWeight ==
    [path |-> <<"p", "r", "o", "t", "o", "c", "o", "l", "/", "2", "0", "2", "4", "-", "0", "1", "-", "0", "4", ".", "m", "d">>,
     lines |-> << <<"-", "-", "-">>, <<"W", "e", "i", "g", "h", "t", ":", " ", "7", "0", " ", "k", "g">>, <<"n", "o", "t", "e", ":", " ", "a", ":", " ", "b">>, <<"-", "-", "-">>, <<>>, Oats25 >>]

\* The same with the key spelled weight_kg.
BrokenWeightKg ==
    [path |-> <<"p", "r", "o", "t", "o", "c", "o", "l", "/", "2", "0", "2", "4", "-", "0", "1", "-", "0", "5", ".", "m", "d">>,
     lines |-> << <<"-", "-", "-">>, <<"w", "e", "i", "g", "h", "t", "_", "k", "g", ":", " ", "7", "1", " ", "k", "g">>, <<"n", "o", "t", "e", ":", " ", "a", ":", " ", "b">>, <<"-", "-", "-">>, <<>>, Oats25 >>]

\* A log without a weight.
FrontNoWeight ==
    [path |-> <<"p", "r", "o", "t", "o", "c", "o", "l", "/", "2", "0", "2", "4", "-", "0", "1", "-", "0", "6", ".", "m", "d">>,
     lines |-> << <<"-", "-", "-">>, <<"s", "t", "e", "p", "s", ":", " ", "9", "0", "0", "0">>, <<"-", "-", "-">>, Oats25 >>]

WeightFiles ==
    {FrontWeight, FrontWeightKg, FrontWeightBlank, BrokenWeight, BrokenWeightKg, FrontNoWeight}

WeightCorpora == {c \in SUBSET WeightFiles : Cardinality(c) <= MaxFiles}

InitWeight ==
    /\ foods = <<>>
    /\ slug_by_alias = EmptyMap
    /\ aliases_list = {}
    /\ loaded = FALSE
    /\ LogIdle
    /\ TdeeIdle
    /\ foods_yaml \in FoodsFiles
    /\ protocol \in WeightCorpora
    /\ files = <<>>
    /\ msummary = <<>>
    /\ all_missing = <<>>
    /\ summary_json = <<>>
    /\ missing_json = <<>>
    /\ mpc = "start"
    /\ ParseIdle /\ MetaIdle /\ NormIdle

SpecWeight == InitWeight /\ [][NextRun]_vars

\* load_summary: weight = meta.get("weight") of an item of summary.json.
WeightRead(item) ==
    IF <<"w", "e", "i", "g", "h", "t">> \in DOMAIN item.meta THEN item.meta[<<"w", "e", "i", "g", "h", "t">>] ELSE NoneVal

(***************************************************************************)
(* Calls of load_summary and compute_tdee over longer runs of days.        *)
(***************************************************************************)
MaxDay == 8  \* the last day a record can be dated to, the first being day 0

\* What a header can give: a weight alone, a weight and an intake, an
\* intake alone.
LongObservations ==
    { [weight |-> <<71>>, actual_calories |-> <<>>],
      [weight |-> <<70>>, actual_calories |-> <<2200>>],
      [weight |-> <<>>, actual_calories |-> <<2100>>] }

LongItems ==
    {[file |-> IntText(d) \o <<".", "m", "d">>, date |-> d, meta |-> o] :
        d \in 0..MaxDay, o \in LongObservations}

\* summary.json as parse_logs writes it for logs named by their day: at
\* most one record a day, in ascending order.
LongSummaries ==
    {data \in SeqsUpTo(LongItems, MaxRecords) :
        \A i \in 1..(Len(data) - 1) : data[i].date < data[i + 1].date}

\* A window of 5 days leaves days without an estimate between estimates.
LongWindowPool == {5, MainWindowDays}

InitLong ==
    /\ foods = <<>>
    /\ slug_by_alias = EmptyMap
    /\ aliases_list = {}
    /\ loaded = FALSE
    /\ LogIdle
    /\ summary \in LongSummaries
    /\ window_days \in LongWindowPool
    /\ df = <<>>
    /\ est_df = <<>>
    /\ tpc = "start"
    /\ tdee_json = <<>>
    /\ tdee_png = FALSE
    /\ summary_md = <<>>
    /\ spc = "idle"
    /\ RunIdle /\ ParseIdle /\ MetaIdle /\ NormIdle

NextLong == LoadSummary \/ ComputeTdee

SpecLong == InitLong /\ [][NextLong]_vars

(***************************************************************************)
(* Properties of the reference table loader and the matcher (SpecMatch).   *)
(***************************************************************************)
\* The alias keys one entry of the table declares: its aliases, its slug and
\* its name, lower-cased, the empty ones left out.
DeclaredKeys(entry) ==
    ({Lower(entry.aliases[i]) : i \in 1..Len(entry.aliases)}
        \cup {Lower(entry.slug), Lower(entry.name)}) \ {<<>>}

TableKeys == UNION {DeclaredKeys(foods[i]) : i \in 1..Len(foods)}

TableSlugs == {foods[i].slug : i \in 1..Len(foods)}

\* A token of key: a maximal non-empty run of characters that are not one of
\* space, comma, hyphen, underscore, slash.
TokenBreaks == {" ", ",", "-", "_", "/"}

IsTokenAt(key, i, j) ==
    /\ 1 <= i /\ i <= j /\ j <= Len(key)
    /\ \A k \in i..j : key[k] \notin TokenBreaks
    /\ i = 1 \/ key[i - 1] \in TokenBreaks
    /\ j = Len(key) \/ key[j + 1] \in TokenBreaks

AliasTokenSpans(key) ==
    LET keys == TableKeys
    IN  {sp \in (1..Len(key)) \X (1..Len(key)) :
            IsTokenAt(key, sp[1], sp[2]) /\ Slice(key, sp[1], sp[2]) \in keys}

\* Some alias of the table is within the cutoff 0.6 of key: 2M/T >= 6/10.
HasApproximate(key) ==
    \E x \in TableKeys : LET r == Ratio(x, key) IN 10 * r.num >= 6 * r.den

Called == loaded /\ mresult # None

\* C1: a name whose lower-cased full text is an alias of the table resolves
\* to the food the alias map holds for that alias, a food that declares it,
\* with confidence 1.0, whatever its tokens or an approximate match would give.
C1_ExactAliasWins ==
    Called =>
        LET key == Lower(mname)
        IN  key \in TableKeys =>
               /\ mresult = <<slug_by_alias[key], 10>>
               /\ \E i \in 1..Len(foods) :
                     foods[i].slug = mresult[1] /\ key \in DeclaredKeys(foods[i])

\* C1 witness: the full name is an alias of one food and its last alias token
\* belongs to another food.
C1_Witness ==
    /\ Called
    /\ Lower(mname) \in TableKeys
    /\ mresult[2] = 10
    /\ \E sp \in AliasTokenSpans(Lower(mname)) :
          slug_by_alias[Slice(Lower(mname), sp[1], sp[2])] # mresult[1]

\* C2: when the full name is not an alias and some token is, the result is the
\* food of the right-most token that is an alias, with confidence 0.9; the
\* documented example resolves to the food that declares "vollkornreis".
C2_LastAliasTokenWins ==
    /\ Called =>
          LET key == Lower(mname)
              spans == AliasTokenSpans(key)
              last == CHOOSE sp \in spans : \A other \in spans : other[1] <= sp[1]
          IN  key \notin TableKeys /\ spans # {} =>
                 mresult = <<slug_by_alias[Slice(key, last[1], last[2])], 9>>
    /\ Called /\ mname = UncleBens /\ foods = RiceTable =>
          mresult = <<RiceTable[1].slug, 9>>

\* C2 witness: two tokens are aliases of different foods, the later one has
\* decided, and an approximate match exists as well.
C2_Witness ==
    /\ Called
    /\ mresult[2] = 9
    /\ HasApproximate(Lower(mname))
    /\ \E sp \in AliasTokenSpans(Lower(mname)) :
          slug_by_alias[Slice(Lower(mname), sp[1], sp[2])] # mresult[1]

\* C3: the identifier is none exactly when the confidence is 0.0, exactly when
\* no layer finds a candidate; otherwise it is a food of the table and the
\* confidence is that of the first layer that matched.
C3_NoneIffNoLayer ==
    Called =>
        LET key == Lower(mname)
            exact == key \in TableKeys
            token == AliasTokenSpans(key) # {}
            fuzzy == HasApproximate(key)
        IN  /\ (mresult[1] = None) <=> (mresult[2] = 0)
            /\ (mresult[2] = 0) <=> (~exact /\ ~token /\ ~fuzzy)
            /\ mresult[2] # 0 =>
                  /\ mresult[1] \in TableSlugs
                  /\ mresult[2] = (IF exact THEN 10 ELSE IF token THEN 9 ELSE 8)

\* C3 witness: a name that only the approximate layer resolves.
C3_Witness ==
    /\ Called
    /\ mresult[2] = 8
    /\ mresult[1] \in TableSlugs

\* C3, the other case: a table with foods and a name that nothing resolves.
C3_WitnessNone ==
    /\ Called
    /\ Len(foods) > 0
    /\ mresult = <<None, 0>>

\* C6: an alias declared by two foods resolves to the food loaded first.
C6_FirstLoadedWins ==
    loaded =>
        \A key \in DOMAIN slug_by_alias :
            LET first == CHOOSE i \in 1..Len(foods) :
                            /\ key \in DeclaredKeys(foods[i])
                            /\ \A j \in 1..(i - 1) : key \notin DeclaredKeys(foods[j])
            IN  slug_by_alias[key] = foods[first].slug

\* What load_foods does instead: the food loaded last holds the alias.
C6_LastLoadedWins ==
    loaded =>
        /\ DOMAIN slug_by_alias = TableKeys
        /\ \A key \in DOMAIN slug_by_alias :
              LET last == CHOOSE i \in 1..Len(foods) :
                              /\ key \in DeclaredKeys(foods[i])
                              /\ \A j \in (i + 1)..Len(foods) : key \notin DeclaredKeys(foods[j])
              IN  slug_by_alias[key] = foods[last].slug

(***************************************************************************)
(* Claims about the day aggregator (SpecDay).                              *)
(***************************************************************************)
\* The body line a pass of the loop is about to take.
CurrentLine == content[cursor + 1]

\* parse_food_line recognises the current line of a pass of the loop.
Recognised ==
    /\ cursor' = cursor + 1
    /\ Len(Strip(CurrentLine)) > 0
    /\ Len(ParseFoodLine(CurrentLine)) = 3

\* What a pass of the loop adds to the total of nutrient k.
Added(k) == Total(consumed', k) - Total(consumed, k)

NutrientKeys == {"kcal", "protein_g", "carbs_g", "fat_g"}

\* C4: every body line that parse_food_line recognises but whose name
\* match_food cannot resolve adds exactly one entry {file basename, trimmed
\* raw line, parsed name} at the end of the missing list and adds nothing to
\* any nutrient total of the day.
C4_UnresolvedLineRecorded ==
    [][ Recognised =>
          LET name == ParseFoodLine(CurrentLine)[3]
          IN  MatchFood(name, slug_by_alias, aliases_list)[1] = None =>
                /\ missing' = Append(missing, [file |-> Basename(file),
                                               line |-> Strip(CurrentLine),
                                               name |-> name])
                /\ \A k \in NutrientKeys : Added(k) = 0
                /\ consumed' = consumed ]_cursor

\* C4 witness: after a resolved line has put totals on the day, a recognised
\* line that no layer resolves ("Kaffee 2 Tassen", name "Tassen") has left
\* the one missing entry.
C4_Witness ==
    /\ cursor = 2
    /\ DOMAIN consumed # {}
    /\ Len(missing) = 1
    /\ mresult = <<None, ConfNone>>
    /\ missing[1].name = <<"T", "a", "s", "s", "e", "n">>
    /\ missing[1].file = <<"2", "0", "2", "4", "-", "0", "1", "-", "0", "1", ".", "m", "d">>

\* C5: a line of quantity q = m / 10^e grams that match_food resolves adds to
\* each of kcal, protein_g, fat_g and carbs_g a hundredth-grained amount
\* nearest to per-100g value * q / 100; with the table of oats alone the line
\* '25 g oats' is resolved and adds kcal 97.25 and protein_g 4.25.
C5_ShareOfPer100 ==
    [][ Recognised =>
          LET parsed == ParseFoodLine(CurrentLine)
              m == parsed[1][1]
              scale == Pow10(parsed[1][2])
              match == MatchFood(parsed[3], slug_by_alias, aliases_list)
              entry == FoodsGet(foods, match[1])
              Nearest(r, per100) ==
                  /\ 2 * (r * scale - per100 * m) <= scale
                  /\ 2 * (per100 * m - r * scale) <= scale
          IN  match[1] # None =>
                /\ Nearest(Added("kcal"), entry.kcal_per_100g)
                /\ Nearest(Added("protein_g"), entry.protein_g_per_100g)
                /\ Nearest(Added("carbs_g"), entry.carbs_g_per_100g)
                /\ Nearest(Added("fat_g"), entry.fat_g_per_100g)
                /\ (CurrentLine = Oats25 /\ foods = <<OatsEntry>>) =>
                      /\ match = <<OatsEntry.slug, ConfExact>>
                      /\ Added("kcal") = 9725
                      /\ Added("protein_g") = 425 ]_cursor

\* C5 witness: '25 g oats' has been taken as the first line of a day under
\* the table of oats alone and the day's totals hold its share.
C5_Witness ==
    /\ foods = <<OatsEntry>>
    /\ cursor = 1
    /\ content[1] = Oats25
    /\ DOMAIN consumed = NutrientKeys
    /\ consumed["kcal"] = 9725
    /\ consumed["protein_g"] = 425
    /\ missing = <<>>

(***************************************************************************)
(* Claims about the rolling estimator (SpecTdee).  The observations of a   *)
(* window are read from the day records of summary.json.                   *)
(***************************************************************************)
\* compute_tdee has been through its loop over the days.
LoopDone == tpc \in {"computed", "aborted", "written", "plotted", "done"}

\* The days of the loop: the first date of the records to the last.
LoopDays ==
    MinOf({summary[i].date : i \in 1..Len(summary)})
        .. MaxOf({summary[i].date : i \in 1..Len(summary)})

\* The records of the trailing window [d - (window_days - 1), d].
InTrailingWindow(d) ==
    {i \in 1..Len(summary) :
        d - (window_days - 1) <= summary[i].date /\ summary[i].date <= d}

\* Its weight observations and its intake observations.
WeightObs(d) == {i \in InTrailingWindow(d) : Len(summary[i].meta.weight) = 1}

IntakeObs(d) == {i \in InTrailingWindow(d) : Len(summary[i].meta.actual_calories) = 1}

\* The first and the last weight observation of the window.
FirstWeightObs(d) ==
    CHOOSE i \in WeightObs(d) : \A j \in WeightObs(d) : summary[i].date <= summary[j].date

LastWeightObs(d) ==
    CHOOSE i \in WeightObs(d) : \A j \in WeightObs(d) : summary[j].date <= summary[i].date

RECURSIVE IntakeTotal(_)
IntakeTotal(obs) ==
    IF obs = {} THEN 0
    ELSE LET i == CHOOSE x \in obs : TRUE
         IN  summary[i].meta.actual_calories[1] + IntakeTotal(obs \ {i})

EstimateDates == {est_df[k].date : k \in 1..Len(est_df)}

\* C7: after the loop of compute_tdee, window-end day d has an estimate if
\* and only if its trailing window holds at least 2 weight observations and
\* at least 1 intake observation and its first and last weight observation
\* are more than 0 days apart; with weights on day 0 and day 1 only, one
\* intake on day 1 and window_days = 14 there is an estimate at day 1 with
\* span 1; a window with a single weight observation gives none.
C7_EstimateIffEligible ==
    LoopDone =>
        /\ \A d \in LoopDays :
              d \in EstimateDates <=>
                  /\ Cardinality(WeightObs(d)) >= 2
                  /\ Cardinality(IntakeObs(d)) >= 1
                  /\ summary[LastWeightObs(d)].date - summary[FirstWeightObs(d)].date > 0
        /\ EstimateDates \subseteq LoopDays
        /\ \A d \in LoopDays : Cardinality(WeightObs(d)) = 1 => d \notin EstimateDates
        /\ ( /\ window_days = MainWindowDays
             /\ {summary[i].date : i \in WeightObs(2)} = {0, 1}
             /\ {summary[i].date : i \in IntakeObs(2)} = {1} )
           => \E k \in 1..Len(est_df) : est_df[k].date = 1 /\ est_df[k].days = 1

\* C7 witness: the run of the example, weights on day 0 and day 1 only and
\* one intake on day 1 under the 14-day window, has its estimate at day 1
\* with span 1 and none at day 0.
C7_Witness ==
    /\ tpc = "computed"
    /\ window_days = MainWindowDays
    /\ {summary[i].date : i \in WeightObs(2)} = {0, 1}
    /\ {summary[i].date : i \in IntakeObs(2)} = {1}
    /\ Len(est_df) = 1
    /\ est_df[1].date = 1
    /\ est_df[1].days = 1

\* C8: every emitted estimate has delta_w = last weight observation of its
\* window minus the first, mean_cal = the mean of the intake observations
\* of the window, days = the days from the first to the last weight
\* observation, and tdee = mean_cal - delta_w * 7700 / days.
C8_EstimateArithmetic ==
    LoopDone =>
        \A k \in 1..Len(est_df) :
            LET e == est_df[k]
                first == summary[FirstWeightObs(e.date)]
                last == summary[LastWeightObs(e.date)]
                n == Cardinality(IntakeObs(e.date))
            IN  /\ e.delta_w = last.meta.weight[1] - first.meta.weight[1]
                /\ e.days = last.date - first.date
                /\ e.mean_cal[2] # 0
                /\ e.mean_cal[1] * n = IntakeTotal(IntakeObs(e.date)) * e.mean_cal[2]
                /\ e.tdee[2] # 0
                /\ e.tdee[1] * (e.mean_cal[2] * e.days)
                      = e.tdee[2] * (e.mean_cal[1] * e.days
                                       - e.delta_w * KcalPerKg * e.mean_cal[2])

\* C8 witness: an estimate over a weight loss, two intake observations and
\* a span of two days.
C8_Witness ==
    /\ LoopDone
    /\ \E k \in 1..Len(est_df) :
          /\ est_df[k].delta_w < 0
          /\ est_df[k].mean_cal[2] = 2
          /\ est_df[k].days = 2

\* tdee.json holds no estimate.
NoEstimateOnDisk == Len(tdee_json) = 0 \/ Len(tdee_json[1].estimates) = 0

\* C9: with zero estimates the run of compute_plot_tdee ends in a failure
\* before write_outputs and plot: it never goes on with an empty estimate
\* list, and after the abort there is no plot, no estimate in tdee.json and
\* no summary document; write_tdee_summary run on an empty estimate list
\* returns 2 and writes no summary document.
C9_NoEstimatesIsFatal ==
    /\ tpc \in {"computed", "written", "plotted", "done"} => Len(est_df) > 0
    /\ (LoopDone /\ Len(est_df) = 0) => tpc = "aborted"
    /\ tpc = "aborted" =>
          /\ Len(est_df) = 0
          /\ ~tdee_png
          /\ NoEstimateOnDisk
          /\ Len(summary_md) = 0
    /\ (spc # "idle" /\ Len(tdee_json) = 1 /\ Len(tdee_json[1].estimates) = 0) =>
          spc = "returned 2" /\ Len(summary_md) = 0

\* C9 witness: compute_tdee has aborted a run over records that give no
\* eligible window, and write_tdee_summary, run afterwards on the document
\* without estimates, has returned 2.
C9_Witness ==
    /\ tpc = "aborted"
    /\ Len(summary) >= 2
    /\ spc = "returned 2"
    /\ Len(summary_md) = 0
    /\ ~tdee_png

\* C10 (as claimed): the rows the estimator works on are ascending by date
\* and rows of one date are in the order of their file paths.
C10_TiesInFilePathOrder ==
    tpc \in {"loaded", "computed", "aborted", "crashed", "written", "plotted", "done"} =>
        \A i, j \in 1..Len(df) :
            i < j =>
                \/ df[i].date < df[j].date
                \/ /\ df[i].date = df[j].date
                   /\ StrLess(summary[df[i].item].file, summary[df[j].item].file)

\* What load_summary does give: every record once, ascending by date.
C10_AscendingByDate ==
    tpc \in {"loaded", "computed", "aborted", "written", "plotted", "done"} =>
        /\ {df[i].item : i \in 1..Len(df)} = 1..Len(summary)
        /\ Len(df) = Len(summary)
        /\ \A i, j \in 1..Len(df) : i < j => df[i].date <= df[j].date

\* Records that share a date never reach the estimates: reindex raises.
C10_SharedDateCrashes ==
    (LoopDone \/ tpc = "crashed") =>
        ((\E i, j \in 1..Len(summary) : i # j /\ summary[i].date = summary[j].date)
            => tpc = "crashed" /\ Len(est_df) = 0)


(***************************************************************************)
(* Properties of the parsing run (SpecRun).                                *)
(***************************************************************************)
\* The day records of summary.json as parse_logs.main wrote it.
Written == summary_json[1]

\* Dates as text order them.
DateBefore(a, b) == a.kind = "str" /\ b.kind = "str" /\ StrLess(a.text, b.text)

\* C11 (as claimed): the day records written to summary.json are ascending
\* by their resolved dates, whatever the order of the file paths.
C11_WrittenAscendingByDate ==
    summary_json # <<>> =>
        \A i, j \in 1..Len(Written) :
            i < j => ~DateBefore(Written[j].date, Written[i].date)

\* What main does give: the records in the order of sorted(paths), one for
\* every file.
C11_WrittenInPathOrder ==
    summary_json # <<>> =>
        /\ Len(Written) = Cardinality(protocol)
        /\ \A i \in 1..Len(Written) :
              Written[i].file = Basename(SortedByPath(protocol)[i].path)


\* A file main has processed: the table is loaded and the file is no longer
\* among those to come.
Processed(f) == loaded /\ \A i \in 1..Len(files) : files[i] # f

\* A text without front matter whose header is a block of key:value lines
\* closed by a blank line.
HasKeyValueHeader(f) ==
    /\ FirstBlank(f.lines) > 1
    /\ ~FmBoundary(f.lines[1])
    /\ \A i \in 1..(FirstBlank(f.lines) - 1) : FirstColon(f.lines[i]) > 0

\* The missing entries of file f that quote one of its header lines.
HeaderLinesMissing(f) ==
    {i \in 1..Len(all_missing) :
        /\ all_missing[i].file = Basename(f.path)
        /\ \E h \in 1..(FirstBlank(f.lines) - 1) : all_missing[i].line = Strip(f.lines[h])}

\* C12 (as claimed): of a file with a key:value header closed by a blank
\* line and no front matter, the body is the lines after the blank line: no
\* header line reaches parse_food_line, and none appears in the missing list.
C12_HeaderLinesNeverParsed ==
    \A f \in protocol :
        (Processed(f) /\ HasKeyValueHeader(f)) =>
            /\ \A o \in ProcessFile(f, foods, slug_by_alias, aliases_list) :
                  o.content = Lines(f.lines, FirstBlank(f.lines) + 1, Len(f.lines))
            /\ HeaderLinesMissing(f) = {}

\* What process_file does give: the header block is taken off the text only
\* when the front-matter library raised on the file.
C12_HeaderDroppedOnlyAfterRaise ==
    \A f \in protocol :
        Processed(f) =>
            \A o \in ProcessFile(f, foods, slug_by_alias, aliases_list) :
                IF FrontMatterLoad(f.lines).raised
                THEN o.content = Remainder(f.lines)
                ELSE o.content = FrontMatterLoad(f.lines).content


\* The file the i-th record of summary was made from.
FileOfRecord(i) == SortedByPath(protocol)[i]

\* The header mapping process_file reads from a file.
HeaderOf(f) == HeaderAndBody(f.lines, FrontMatterLoad(f.lines)).meta

\* The first YYYY-MM-DD substring of a name, the empty text when none.
IsoDateAt(s, p) == p + 9 <= Len(s) /\ IsIsoDate(Slice(s, p, p + 9))

IsoDateIn(s) ==
    IF \E p \in 1..Len(s) : IsoDateAt(s, p)
    THEN LET p == CHOOSE q \in 1..Len(s) : IsoDateAt(s, q) /\ \A r \in 1..(q - 1) : ~IsoDateAt(s, r)
         IN  Slice(s, p, p + 9)
    ELSE <<>>

\* C13 (as claimed): the date of a day record is the header's date field
\* when present, otherwise the YYYY-MM-DD substring of the file name, and
\* otherwise empty.
C13_DateResolution ==
    \A i \in 1..Len(msummary) :
        msummary[i].date =
            IF <<"d", "a", "t", "e">> \in DOMAIN HeaderOf(FileOfRecord(i))
               /\ Truthy(HeaderOf(FileOfRecord(i))[<<"d", "a", "t", "e">>])
            THEN HeaderOf(FileOfRecord(i))[<<"d", "a", "t", "e">>]
            ELSE Str(IsoDateIn(Basename(FileOfRecord(i).path)))

\* What process_file does give without a header date: the whole base name
\* less '.md', which is never empty for a path glob found under '*.md'.
C13_BaseNameWithoutHeaderDate ==
    \A i \in 1..Len(msummary) :
        /\ Truthy(msummary[i].date)
        /\ <<"d", "a", "t", "e">> \notin DOMAIN HeaderOf(FileOfRecord(i)) =>
              msummary[i].date = Str(DropMd(Basename(FileOfRecord(i).path)))


\* C14 (as claimed): the run writes summary.json and missing_foods.json only
\* when foods.yaml is readable and holds entries and protocol/ holds files.
C14_OutputOnlyFromTableAndCorpus ==
    (summary_json # <<>> \/ missing_json # <<>>) =>
        /\ foods_yaml # <<>>
        /\ Len(foods_yaml[1]) > 0
        /\ protocol # {}

\* What main does give: only a foods.yaml that cannot be opened or loaded
\* ends the run before the output; an empty table or an empty protocol/
\* does not.
C14_OnlyUnreadableTableAborts ==
    /\ (summary_json # <<>> \/ missing_json # <<>>) => foods_yaml # <<>>
    /\ (mpc = "done" /\ protocol = {}) => summary_json = << <<>> >> /\ missing_json = << <<>> >>


(***************************************************************************)
(* Properties of parse_food_line and of the body loop over one line        *)
(* (SpecLine, SpecParse).                                                  *)
(***************************************************************************)
\* The text of a line after its first run of digits.
AfterFirstDigits(line) ==
    Slice(line, FirstDigit(line) + DigitRun(line, FirstDigit(line)), Len(line))

\* The three shapes: a blank line, a line without a digit, and a line with
\* nothing but blanks after its first run of digits.
NoFoodShape(line) ==
    \/ IsBlank(line)
    \/ FirstDigit(line) = 0
    \/ IsBlank(AfterFirstDigits(line))

\* C15: parse_food_line returns none for a blank line, for a line without a
\* digit and for a line with no text after its first run of digits, and the
\* pass of the body loop over such a line adds nothing to the totals and no
\* entry to the missing list.
C15_UnparsedLineSkipped ==
    [][(cursor' = cursor + 1 /\ NoFoodShape(CurrentLine)) =>
          /\ ParseFoodLine(CurrentLine) = <<>>
          /\ consumed' = consumed
          /\ missing' = missing]_cursor

\* A line with a digit and nothing after the digits has been passed, and has
\* left the totals and the missing list empty.
C15_Witness ==
    /\ cursor = 1
    /\ dpc = "returned"
    /\ FirstDigit(content[1]) > 0
    /\ IsBlank(AfterFirstDigits(content[1]))
    /\ missing = <<>>
    /\ DOMAIN result.consumed = {}


\* The line of the observed call after line.strip() and the removal of one
\* leading bullet.
Bare == StripBullet(Strip(pline))

AllBlank(t) == \A i \in 1..Len(t) : IsSpace(t[i])

AllDigits(t) == \A i \in 1..Len(t) : IsDigit(t[i])

\* Digits, at most one '.' or ',' after them, and optional fraction digits.
IsNumberText(t) ==
    \E k \in 1..Len(t) :
        /\ AllDigits(Slice(t, 1, k))
        /\ \/ k = Len(t)
           \/ t[k + 1] \in {".", ","} /\ AllDigits(Slice(t, k + 2, Len(t)))

\* The number a text of that shape denotes, ',' read as the decimal point:
\* <<m, e>> for m / 10^e.
NumberTextValue(t) ==
    LET k == CHOOSE n \in 1..Len(t) : AllDigits(Slice(t, 1, n)) /\ (n = Len(t) \/ ~IsDigit(t[n + 1]))
    IN  IF k = Len(t) THEN <<DigitsValue(t), 0>>
        ELSE <<DigitsValue(Slice(t, 1, k) \o Slice(t, k + 2, Len(t))), Len(t) - k - 1>>

IsUnitText(t) == Lower(t) \in {<<"g">>, <<"g", "r", "a", "m", "m">>, <<"g", ".">>}

\* The ways to read s as a number, blanks, a unit (or none), blanks and
\* further text: the number ends at a, the unit is s[b+1..c], the text
\* starts after d.
PrimaryReadings(s) ==
    {r \in (1..Len(s)) \X (1..Len(s)) \X (1..Len(s)) \X (1..Len(s)) :
        /\ r[1] <= r[2] /\ r[2] <= r[3] /\ r[3] < r[4] /\ r[4] < Len(s)
        /\ IsNumberText(Slice(s, 1, r[1]))
        /\ AllBlank(Slice(s, r[1] + 1, r[2]))
        /\ r[3] > r[2] => IsUnitText(Slice(s, r[2] + 1, r[3]))
        /\ AllBlank(Slice(s, r[3] + 1, r[4]))}

\* A line of the primary shape gives the number as quantity and the further
\* text, trimmed, as name; where a unit can be read, it is not in the name.
PrimaryResult ==
    \A r \in PrimaryReadings(Bare) :
        (r[3] > r[2] \/ \A q \in PrimaryReadings(Bare) : q[3] = q[2]) =>
            /\ Len(presult) = 3
            /\ presult[1] = NumberTextValue(Slice(Bare, 1, r[1]))
            /\ presult[3] = Strip(Slice(Bare, r[4] + 1, Len(Bare)))

\* The first number anywhere in s: where it ends.
FirstNumberEnd(s) ==
    LET i == FirstDigit(s)
        nd == DigitRun(s, i)
        sep == IF i + nd <= Len(s) /\ s[i + nd] \in {".", ","} THEN 1 ELSE 0
    IN  i + nd + sep + DigitRun(s, i + nd + sep) - 1

\* The fallback on the first number: digits, a separator and fraction
\* digits where they follow.
FallbackOnFirstNumber ==
    (PrimaryReadings(Bare) = {} /\ FirstDigit(Bare) > 0
        /\ ~IsBlank(Slice(Bare, FirstNumberEnd(Bare) + 1, Len(Bare)))) =>
            presult = << NumberTextValue(Slice(Bare, FirstDigit(Bare), FirstNumberEnd(Bare))),
                         None,
                         Strip(Slice(Bare, FirstNumberEnd(Bare) + 1, Len(Bare))) >>

\* The fallback on the first run of digits alone.
FallbackOnFirstDigitRun ==
    (PrimaryReadings(Bare) = {} /\ FirstDigit(Bare) > 0 /\ ~IsBlank(AfterFirstDigits(Bare))) =>
        presult = << <<DigitsValue(Slice(Bare, FirstDigit(Bare),
                                         FirstDigit(Bare) + DigitRun(Bare, FirstDigit(Bare)) - 1)), 0>>,
                     None,
                     Strip(AfterFirstDigits(Bare)) >>

\* C16 (as claimed): a line of the primary shape gives the number and the
\* trimmed further text; any other line gives its first digit run as
\* quantity, the trimmed text after that run as name, and no unit.
C16_FallbackTakesDigitRun ==
    ppc = "returned" => PrimaryResult /\ FallbackOnFirstDigitRun

\* C16 (amended): a line of the primary shape gives the number and the
\* trimmed further text; any other line gives its first number (digits, one
\* optional separator, optional fraction digits) as quantity, the trimmed
\* text after that number as name, and no unit.
C16_FallbackTakesNumber ==
    ppc = "returned" => PrimaryResult /\ FallbackOnFirstNumber

\* A call on a primary line with a decimal comma and a unit in upper case.
C16_Witness ==
    /\ ppc = "returned"
    /\ pline = <<"2", ",", "5", " ", "G", " ", "x">>
    /\ presult = << <<25, 1>>, "g", <<"x">> >>


(***************************************************************************)
(* Properties of the totals of a day record (SpecRun, SpecDay).            *)
(***************************************************************************)
\* The body lines process_file reads from a file.
BodyOf(f) == HeaderAndBody(f.lines, FrontMatterLoad(f.lines)).content

\* What a line can contribute to nutrient k, in hundredths: the share
\* compute_nutrients returns for a resolved line, nothing for any other.
Contributions(out, k) ==
    IF out.kind = "resolved" THEN {n[k] : n \in out.nutrients} ELSE {0}

\* The sums of the contributions of the first n lines.
RECURSIVE ContributionSums(_, _, _, _, _, _, _)
ContributionSums(lines, n, k, path, fs, map, aliases) ==
    IF n = 0 THEN {0}
    ELSE {a + b : a \in ContributionSums(lines, n - 1, k, path, fs, map, aliases),
                  b \in Contributions(LineOutcome(lines[n], path, fs, map, aliases), k)}

\* No line of the body is resolved.
NoneResolved(lines, path, fs, map, aliases) ==
    \A i \in 1..Len(lines) : LineOutcome(lines[i], path, fs, map, aliases).kind # "resolved"

\* The totals of a record are sums of the contributions of the resolved
\* lines of the body; a total is absent only when no line was resolved.
TotalsAreSums(consumedOf, lines, path) ==
    \A k \in NutrientKeys :
        /\ Total(consumedOf, k) \in
              ContributionSums(lines, Len(lines), k, path, foods, slug_by_alias, aliases_list)
        /\ k \notin DOMAIN consumedOf =>
              NoneResolved(lines, path, foods, slug_by_alias, aliases_list)

\* C17: each nutrient total of a day record is the sum of the contributions
\* of all resolved lines of its file, wherever unresolved or unrecognised
\* lines stand among them, and every file of the corpus gets its record,
\* whatever the lines of the files before it.
C17_TotalsSumResolvedLines ==
    /\ \A i \in 1..Len(msummary) :
          TotalsAreSums(msummary[i].consumed, BodyOf(FileOfRecord(i)), FileOfRecord(i).path)
    /\ loaded => Len(msummary) + Len(files) = Cardinality(protocol)
    /\ summary_json # <<>> => Len(Written) = Cardinality(protocol)

\* A record with totals from a file that also left a missing entry, and the
\* record of a later file after it.
C17_Witness ==
    \E i \in 1..Len(msummary) :
        /\ i < Len(msummary)
        /\ Total(msummary[i].consumed, "kcal") > 0
        /\ \E j \in 1..Len(all_missing) : all_missing[j].file = msummary[i].file
        /\ summary_json # <<>>

\* The same for the record process_file returns for one body (SpecDay).
C17_DayTotalsSumResolvedLines ==
    /\ dpc = "returned" =>
          cursor = Len(content) /\ TotalsAreSums(result.consumed, content, file)
    /\ dpc = "loop" /\ loaded =>
          \A k \in NutrientKeys :
              Total(consumed, k) \in
                  ContributionSums(content, cursor, k, file, foods, slug_by_alias, aliases_list)


\* C18 (as claimed): every day record carries a total that is not negative
\* for each of kcal, protein_g, fat_g and carbs_g, 0 where no body line was
\* resolved.
C18_FourTotalsInEveryRecord ==
    \A i \in 1..Len(msummary) :
        /\ DOMAIN msummary[i].consumed = NutrientKeys
        /\ \A k \in NutrientKeys : msummary[i].consumed[k] >= 0

\* What process_file does give: the four totals when a line was resolved,
\* an empty mapping when none was; no total is negative.
C18_TotalsOnlyAfterResolvedLine ==
    \A i \in 1..Len(msummary) :
        /\ DOMAIN msummary[i].consumed =
              IF NoneResolved(BodyOf(FileOfRecord(i)), FileOfRecord(i).path,
                              foods, slug_by_alias, aliases_list)
              THEN {} ELSE NutrientKeys
        /\ \A k \in DOMAIN msummary[i].consumed : msummary[i].consumed[k] >= 0


(***************************************************************************)
(* Properties of the header extractor (SpecMeta).                          *)
(***************************************************************************)
\* The front-matter metadata of the text, empty when the library raised.
FrontMetadata(lines) ==
    IF FrontMatterLoad(lines).raised THEN EmptyMap ELSE FrontMatterLoad(lines).metadata

\* Every line with a colon split on its first colon: the trimmed text
\* before it is the key, the trimmed text after it (commas as dots) the
\* value; a later line overwrites an earlier one with the same key.
RECURSIVE KeyValuePairs(_)
KeyValuePairs(lines) ==
    IF Len(lines) = 0 THEN EmptyMap
    ELSE LET last == Strip(lines[Len(lines)])
             before == KeyValuePairs(Lines(lines, 1, Len(lines) - 1))
         IN  IF FirstColon(last) = 0 THEN before
             ELSE Put(before, Strip(Slice(last, 1, FirstColon(last) - 1)),
                      CommaToDot(Strip(Slice(last, FirstColon(last) + 1, Len(last)))))

\* The lines before the first blank line.
UpToFirstBlank(lines) ==
    IF FirstBlank(lines) = 0 THEN lines ELSE Lines(lines, 1, FirstBlank(lines) - 1)

\* The first non-blank line is punctuation only and a later line is too.
Delimited(lines) ==
    /\ FirstNonBlank(lines) > 0
    /\ IsDelimiter(lines[FirstNonBlank(lines)])
    /\ \E j \in (FirstNonBlank(lines) + 1)..Len(lines) : IsDelimiter(lines[j])

\* The lines between the opening delimiter and the next delimiter.
Between(lines) ==
    Lines(lines, FirstNonBlank(lines) + 1, ClosingDelimiter(lines, FirstNonBlank(lines)) - 1)

\* C19 (as claimed): front-matter metadata is used when present; otherwise
\* the lines between two punctuation-only delimiter lines are parsed;
\* otherwise the key:value lines from the top up to the first blank line;
\* each line is split on its first colon only.
C19_HeaderPrecedence ==
    hpc = "returned" =>
        hmeta = IF DOMAIN FrontMetadata(htext) # {}
                THEN [k \in DOMAIN FrontMetadata(htext) |-> StrOf(FrontMetadata(htext)[k])]
                ELSE IF Delimited(htext) THEN KeyValuePairs(Between(htext))
                ELSE KeyValuePairs(UpToFirstBlank(htext))

\* What load_file_meta does give: of the lines between the delimiters only
\* those before the first blank line are parsed.
C19_DelimitedBlockEndsAtBlank ==
    hpc = "returned" =>
        hmeta = IF DOMAIN FrontMetadata(htext) # {}
                THEN [k \in DOMAIN FrontMetadata(htext) |-> StrOf(FrontMetadata(htext)[k])]
                ELSE IF Delimited(htext) THEN KeyValuePairs(UpToFirstBlank(Between(htext)))
                ELSE KeyValuePairs(UpToFirstBlank(htext))

\* The value of a parsed key:value line keeps its own colon.
C19_ValueKeepsColon ==
    (hpc = "returned" /\ htext = << <<"*", "*", "*">>, <<"s", "l", "e", "e", "p", ":", " ", "7", ":", "3", "0">>, <<"*", "*", "*">> >>) =>
        hmeta = Put(EmptyMap, <<"s", "l", "e", "e", "p">>, <<"7", ":", "3", "0">>)


(***************************************************************************)
(* Properties of the value normaliser (SpecNorm).                          *)
(***************************************************************************)
\* A text of the form H:MM or HH:MM: one or two digits, a colon, two digits.
IsClockText(t) ==
    /\ Len(t) \in {4, 5}
    /\ t[Len(t) - 2] = ":"
    /\ \A i \in 1..Len(t) : i # Len(t) - 2 => IsDigit(t[i])

\* H and M of a clock text.
ClockHours(t) == DigitsValue(Slice(t, 1, Len(t) - 3))

ClockMinutes(t) == DigitsValue(Slice(t, Len(t) - 1, Len(t)))

\* A decimal number in text: digits, or digits, a dot and one or two digits.
IsDecimalText(t) ==
    /\ Len(t) > 0
    /\ \A i \in 1..Len(t) : IsDigit(t[i]) \/ (t[i] = "." /\ i > 1 /\ i \in {Len(t) - 1, Len(t) - 2})
    /\ Cardinality({i \in 1..Len(t) : t[i] = "."}) <= 1

\* The hundredths of a decimal text read back as a number.
HundredthsOf(t) ==
    IF \A i \in 1..Len(t) : IsDigit(t[i]) THEN 100 * DigitsValue(t)
    ELSE IF t[Len(t) - 1] = "."
    THEN 100 * DigitsValue(Slice(t, 1, Len(t) - 2)) + 10 * DigitsValue(Slice(t, Len(t), Len(t)))
    ELSE 100 * DigitsValue(Slice(t, 1, Len(t) - 3)) + DigitsValue(Slice(t, Len(t) - 1, Len(t)))

\* c hundredths are h + m/60 rounded to 2 decimals: c / 100 lies within half
\* a hundredth of h + m/60 (times 6000: 60c against 6000h + 100m).
IsRoundedHours(c, h, m) ==
    /\ 2 * (60 * c - (6000 * h + 100 * m)) <= 60
    /\ 2 * ((6000 * h + 100 * m) - 60 * c) <= 60

\* C20: for every value of the form H:MM or HH:MM the output of
\* normalize_value, read back as a decimal number, equals H + M/60 rounded
\* to 2 decimals.
C20_TimeToDecimalHours ==
    (npc = "returned" /\ IsClockText(nvalue)) =>
        /\ IsDecimalText(nout)
        /\ IsRoundedHours(HundredthsOf(nout), ClockHours(nvalue), ClockMinutes(nvalue))

\* C20 witness: 7:40 has come back as 7.67, rounded up from 7.666...
C20_Witness ==
    npc = "returned" /\ nvalue = <<"7", ":", "4", "0">> /\ nout = <<"7", ".", "6", "7">>

\* No clock time lies halfway between two hundredths of an hour, so the
\* rounding has one outcome.
C20_NoTie ==
    (npc = "ready" /\ IsClockText(nvalue)) => Cardinality(NormalizeValue(nvalue)) = 1


\* C21 (as claimed): a time comes back in shortest decimal form: 7:30 as
\* 7.5, 6:45 as 6.75, and a time of whole hours such as 8:00 as the integer
\* text 8.
C21_ShortestDecimalForm ==
    npc = "returned" =>
        /\ nvalue = <<"7", ":", "3", "0">> => nout = <<"7", ".", "5">>
        /\ nvalue = <<"6", ":", "4", "5">> => nout = <<"6", ".", "7", "5">>
        /\ nvalue = <<"8", ":", "0", "0">> => nout = <<"8">>

\* What normalize_value does give: a time of whole hours comes back as an
\* integer text, any other time with exactly two fraction digits (7:30 as
\* 7.50).
C21_TwoFractionDigits ==
    (npc = "returned" /\ IsClockText(nvalue)) =>
        /\ nvalue = <<"7", ":", "3", "0">> => nout = <<"7", ".", "5", "0">>
        /\ nvalue = <<"6", ":", "4", "5">> => nout = <<"6", ".", "7", "5">>
        /\ nvalue = <<"8", ":", "0", "0">> => nout = <<"8">>
        /\ IF ClockMinutes(nvalue) % 60 = 0
           THEN \A i \in 1..Len(nout) : IsDigit(nout[i])
           ELSE Len(nout) >= 4 /\ nout[Len(nout) - 2] = "."


\* The text is a number of the claimed shape with its integer digits ending
\* at i and its fraction ending at j: an optional sign, digits, optionally a
\* dot or comma and digits, optionally blanks, then optionally unit letters
\* or percent signs up to the end.
HasNumberShape(t, i, j) ==
    /\ 1 <= i /\ i <= j /\ j <= Len(t)
    /\ \E s \in {0, 1} :
          /\ s = 1 => t[1] \in {"+", "-"}
          /\ s < i
          /\ \A x \in (s + 1)..i : IsDigit(t[x])
    /\ (j > i => t[i + 1] \in {".", ","} /\ \A x \in (i + 2)..j : IsDigit(t[x]))
    /\ (j < Len(t) => ~IsDigit(t[j + 1]) /\ t[j + 1] \notin {".", ","})
    /\ \E k \in j..Len(t) :
          /\ \A x \in (j + 1)..k : t[x] = " "
          /\ \A x \in (k + 1)..Len(t) :
                t[x] = "%" \/ (Ord("a") <= Ord(LowerChar(t[x])) /\ Ord(LowerChar(t[x])) <= Ord("z"))
          /\ k < Len(t) \/ k = j

\* The digits of such a number without sign and separator, and the number
\* of its fraction digits: the number is digits / 10^fraction.
ShapeDigits(t, i, j) ==
    DigitsValue(SelectSeq(Slice(t, 1, j), IsDigit))

ShapeFraction(i, j) == IF j > i THEN j - i - 1 ELSE 0

\* The output names the number m / 10^e, negative when minus holds: the
\* integer when the number is whole, the nearest hundredth otherwise.
NamesNumber(out, m, e, minus) ==
    IF m % Pow10(e) = 0
    THEN out = (IF minus /\ m # 0 THEN <<"-">> ELSE <<>>) \o IntText(m \div Pow10(e))
    ELSE \E body \in {out} \cup {Tail(out) : x \in {y \in {1} : Len(out) > 0}} :
            /\ body = out \/ out[1] = "-"
            /\ (body = out) = ~minus
            /\ IsDecimalText(body)
            /\ 2 * (HundredthsOf(body) * Pow10(e) - 100 * m) <= Pow10(e)
            /\ 2 * (100 * m - HundredthsOf(body) * Pow10(e)) <= Pow10(e)

\* C22: a number with optional sign, optional fraction (dot or comma) and
\* optional trailing unit letters or percent sign comes back without its
\* unit, the comma read as the decimal point, as an integer text when it is
\* whole and rounded to 2 decimals otherwise: 70,0 kg gives 70 and 12.5%
\* gives 12.5.
C22_NumberWithoutUnit ==
    (npc = "returned" /\ nvalue # <<None>>) =>
        /\ \A i, j \in 1..Len(nvalue) :
              HasNumberShape(nvalue, i, j) =>
                  NamesNumber(nout, ShapeDigits(nvalue, i, j), ShapeFraction(i, j),
                              nvalue[1] = "-")
        /\ nvalue = <<"7", "0", ",", "0", " ", "k", "g">> => nout = <<"7", "0">>
        /\ nvalue = <<"1", "2", ".", "5", "%">> => nout = <<"1", "2", ".", "5">>

\* C22 witness: 70,0 kg has come back as 70.
C22_Witness ==
    npc = "returned" /\ nvalue = <<"7", "0", ",", "0", " ", "k", "g">> /\ nout = <<"7", "0">>

\* The shapes the check covers: a negative fraction with a unit after a
\* blank has come back rounded and without the unit.
C22_WitnessSigned ==
    npc = "returned" /\ nvalue = <<"-", "7", ",", "5", " ", "h">> /\ nout = <<"-", "7", ".", "5">>


\* The value as normalize_value looks at it: trimmed, the quotes at its ends
\* gone.
Trimmed(v) == StripQuotes(Strip(v))

\* A number of the claimed shape.
IsShapedNumber(t) == \E i, j \in 1..Len(t) : HasNumberShape(t, i, j)

\* One or two digits, a colon, one or two digits.
IsLooseClockText(t) ==
    \E c \in 2..(Len(t) - 1) :
        /\ t[c] = ":"
        /\ c - 1 <= TimeDigits /\ Len(t) - c <= TimeDigits
        /\ \A x \in 1..Len(t) : x # c => IsDigit(t[x])

\* The text from its first digit or sign on; empty when it has neither.
FromFirstNumberChar(t) ==
    IF FirstNumberChar(t) = 0 THEN <<>> ELSE Slice(t, FirstNumberChar(t), Len(t))

\* C23 (as claimed): normalize_value returns a text for every input, the
\* empty text for an empty or missing value, and for a value that is
\* neither a time (H:MM, HH:MM) nor of the shape sign, digits, fraction,
\* unit it returns the trimmed, quote-stripped input unchanged.
C23_OtherValuesUnchanged ==
    npc = "returned" =>
        /\ nvalue = <<None>> => nout = <<>>
        /\ (nvalue # <<None>> /\ Len(Strip(nvalue)) = 0) => nout = <<>>
        /\ ( /\ nvalue # <<None>>
             /\ ~IsClockText(Trimmed(nvalue))
             /\ ~IsShapedNumber(Trimmed(nvalue)) )
           => nout = Trimmed(nvalue)

\* What normalize_value does give: the input comes back unchanged unless it
\* is a time, with one or two minute digits, or a number of that shape
\* follows its leading characters that are neither digit nor sign; then the
\* leading characters are dropped with the unit.
C23_UnchangedUnlessNumberFollows ==
    (npc = "returned" /\ nvalue # <<None>>) =>
        /\ Len(Strip(nvalue)) = 0 => nout = <<>>
        /\ ( /\ ~IsLooseClockText(Trimmed(nvalue))
             /\ ~IsShapedNumber(FromFirstNumberChar(Trimmed(nvalue))) )
           => nout = Trimmed(nvalue)
        /\ nvalue = <<"2", "0", "2", "4", "-", "0", "1", "-", "0", "3">> => nout = nvalue
        /\ nvalue = <<"c", "a", " ", "7", "0", " ", "k", "g">> => nout = <<"7", "0">>


\* C30 (as claimed): normalize_value is idempotent: applied to its own
\* result it returns that result, for times, numbers with units and other
\* texts alike.
C30_Idempotent ==
    npc = "returned" => NormalizeValue(nout) = {nout}

\* What does hold: the result of a second application is a fixed point.
C30_StableAfterSecondPass ==
    npc = "returned" => \A again \in NormalizeValue(nout) : NormalizeValue(again) = {again}

\* Times of whole hours, and numbers whose result has no zero as its last
\* fraction digit, are fixed after one application.
C30_NoTrailingZeroIsFixed ==
    ( /\ npc = "returned"
      /\ nvalue # <<None>>
      /\ IsLooseClockText(Trimmed(nvalue)) \/ IsShapedNumber(FromFirstNumberChar(Trimmed(nvalue)))
      /\ Len(nout) > 0
      /\ nout[Len(nout)] # "0" \/ \A i \in 1..Len(nout) : nout[i] # "." )
    => NormalizeValue(nout) = {nout}


\* C24 (as claimed): when the first non-blank line and a later line are
\* both punctuation-only, every key:value line strictly between the two
\* yields an entry of the result, lines after a blank line inside the block
\* included, and no line outside the two delimiters yields one.
C24_EveryLineOfTheBlock ==
    (hpc = "returned" /\ Delimited(htext)) =>
        DOMAIN hmeta = DOMAIN KeyValuePairs(Between(htext))

\* What load_file_meta does give for a block that is not read as front
\* matter: the entries of the key:value lines between the delimiters that
\* come before the first blank line of the block, and none from outside.
C24_BlockLinesBeforeBlank ==
    (hpc = "returned" /\ Delimited(htext) /\ DOMAIN FrontMetadata(htext) = {}) =>
        /\ DOMAIN hmeta = DOMAIN KeyValuePairs(UpToFirstBlank(Between(htext)))
        /\ DOMAIN hmeta \subseteq DOMAIN KeyValuePairs(Between(htext))


(***************************************************************************)
(* Properties of the status section (SpecStatus).                          *)
(***************************************************************************)
\* The lines of the log file of the run and the record made of it.
StatusFileLines == (CHOOSE f \in protocol : TRUE).lines

StatusKey == <<"s", "t", "a", "t", "u", "s">>

\* The first line that reads status or agenda, trimmed and whatever its
\* case; 0 when there is none.
AnnotationHeading(lines) ==
    IF \E i \in 1..Len(lines) : Lower(Strip(lines[i])) \in {<<"s", "t", "a", "t", "u", "s">>, <<"a", "g", "e", "n", "d", "a">>}
    THEN MinOf({i \in 1..Len(lines) : Lower(Strip(lines[i])) \in {<<"s", "t", "a", "t", "u", "s">>, <<"a", "g", "e", "n", "d", "a">>}})
    ELSE 0

\* A line that ends the run: blank, or starting with '#' or '**'.
EndsAnnotation(line) ==
    \/ Len(Strip(line)) = 0
    \/ Strip(line)[1] = "#"
    \/ (Len(Strip(line)) >= 2 /\ Strip(line)[1] = "*" /\ Strip(line)[2] = "*")

\* The line after the run that starts at line a: the first line from a on
\* that ends it, or the line after the last.
AnnotationEnd(lines, a) ==
    MinOf({e \in a..(Len(lines) + 1) : e = Len(lines) + 1 \/ EndsAnnotation(lines[e])})

\* The lines a..b trimmed and joined by single blanks.
RECURSIVE SpaceJoined(_, _, _)
SpaceJoined(lines, a, b) ==
    IF a > b THEN <<>>
    ELSE IF a = b THEN Strip(lines[a])
    ELSE SpaceJoined(lines, a, b - 1) \o <<" ">> \o Strip(lines[b])

\* The annotation of a file as the claim describes it; empty for none.
AnnotationOf(lines, h) ==
    IF h = 0 THEN <<>>
    ELSE SpaceJoined(lines, h + 1, AnnotationEnd(lines, h + 1) - 1)

\* The record holds the annotation `joined`: none when it is empty, itself
\* when it has at most 120 characters, else its first 117 and '...'.
HoldsAnnotation(meta, joined) ==
    IF Len(joined) = 0 THEN StatusKey \notin DOMAIN meta
    ELSE /\ StatusKey \in DOMAIN meta
         /\ meta[StatusKey].kind = "str"
         /\ Len(meta[StatusKey].text) <= 120
         /\ IF Len(joined) <= 120 THEN meta[StatusKey].text = joined
            ELSE /\ Len(meta[StatusKey].text) = 120
                 /\ \A i \in 1..117 : meta[StatusKey].text[i] = joined[i]
                 /\ \A i \in 118..120 : meta[StatusKey].text[i] = "."

\* C26: the annotation stored under 'status' is the space-joined run of
\* non-blank lines after the first body line that equals status or agenda
\* (trimmed, any case), ending at the first blank line or line starting
\* with '#' or '**'; it is never longer than 120 characters, a longer text
\* is cut to its first 117 characters and '...'; nothing is stored when no
\* line was collected.
C26_StatusAnnotation ==
    Len(msummary) = 1 =>
        HoldsAnnotation(msummary[1].meta,
                        AnnotationOf(StatusFileLines, AnnotationHeading(StatusFileLines)))

\* C26 witness: two lines of 121 characters joined have been stored as 120
\* characters that end in '...'.
C26_Witness ==
    /\ Len(msummary) = 1
    /\ StatusFileLines = << <<"S", "t", "a", "t", "u", "s">>, LongLine, LongLine >>
    /\ StatusKey \in DOMAIN msummary[1].meta
    /\ msummary[1].meta[StatusKey].text = Slice(LongLine \o <<" ">> \o LongLine, 1, 117) \o <<".", ".", ".">>

\* Two lines of 120 characters joined are stored whole.
C26_WitnessWhole ==
    /\ Len(msummary) = 1
    /\ StatusFileLines = << <<" ", "A", "G", "E", "N", "D", "A", " ">>, LongLineLess, LongLine, <<"*", "*", "b">> >>
    /\ msummary[1].meta[StatusKey].text = LongLineLess \o <<" ">> \o LongLine

\* A heading followed at once by a blank line or a marked line stores nothing.
C26_WitnessNone ==
    /\ Len(msummary) = 1
    /\ StatusFileLines = << <<"S", "t", "a", "t", "u", "s">>, <<"#", " ", "x">>, LongLine >>
    /\ StatusKey \notin DOMAIN msummary[1].meta


(***************************************************************************)
(* Properties of the weight header on its way to the estimator             *)
(* (SpecWeight).                                                           *)
(***************************************************************************)
\* The header lines of a log file that spell the weight: the key, lower
\* case and with underscores for blanks, is weight or weight_kg.
WeightLines(f) ==
    {i \in 1..Len(f.lines) :
        /\ FirstColon(f.lines[i]) > 0
        /\ NormalKey(Slice(f.lines[i], 1, FirstColon(f.lines[i]) - 1))
              \in {<<"w", "e", "i", "g", "h", "t">>, <<"w", "e", "i", "g", "h", "t", "_", "k", "g">>}}

\* The number the header gives as the weight.
HeaderWeight(f) ==
    ToNumber(Slice(f.lines[CHOOSE i \in WeightLines(f) : TRUE],
                   FirstColon(f.lines[CHOOSE i \in WeightLines(f) : TRUE]) + 1,
                   Len(f.lines[CHOOSE i \in WeightLines(f) : TRUE])))

\* The log file a day record was made of.
LogOf(r) == CHOOSE f \in protocol : Basename(f.path) = r.file

\* load_summary reads the number w as the weight of the record.
ReadsWeight(r, w) ==
    /\ WeightRead(r).kind = "num"
    /\ WeightRead(r).num[1] * Pow10(w[2]) = w[1] * Pow10(WeightRead(r).num[2])

\* C28 (as claimed): whether the header writes weight or weight_kg, the
\* weight load_summary reads from the day record is the header's weight.
C28_WeightUnderEverySpelling ==
    \A i \in 1..Len(msummary) :
        WeightLines(LogOf(msummary[i])) # {} =>
            ReadsWeight(msummary[i], HeaderWeight(LogOf(msummary[i])))

\* What does hold: a header that spells the key weight (in any case) is
\* read; one that spells it weight_kg, or with a blank for the underscore,
\* is read as no weight, although the record has it under weight_kg.
C28_OnlyWeightIsRead ==
    \A i \in 1..Len(msummary) :
        \A l \in WeightLines(LogOf(msummary[i])) :
            IF NormalKey(Slice(LogOf(msummary[i]).lines[l], 1,
                               FirstColon(LogOf(msummary[i]).lines[l]) - 1)) = <<"w", "e", "i", "g", "h", "t">>
            THEN ReadsWeight(msummary[i], HeaderWeight(LogOf(msummary[i])))
            ELSE /\ WeightRead(msummary[i]) = NoneVal
                 /\ <<"w", "e", "i", "g", "h", "t", "_", "k", "g">> \in DOMAIN msummary[i].meta


(***************************************************************************)
(* Properties of the estimates over longer runs of days (SpecLong).        *)
(***************************************************************************)
\* Two quotients with positive denominators are equal.
RECURSIVE SameQuotient(_, _, _, _)
SameQuotient(a, b, c, d) ==
    IF a \div b # c \div d THEN FALSE
    ELSE IF a % b = 0 \/ c % d = 0 THEN a % b = 0 /\ c % d = 0
    ELSE SameQuotient(b, a % b, d, c % d)

\* The mean of the point estimates at the rows `rows` of est_df.
PointMean(rows) == MeanTdee(est_df, rows, CommonDenominator(est_df, rows))

IsPointMean(q, rows) ==
    SameQuotient(q[1], q[2], PointMean(rows)[1], PointMean(rows)[2])

\* The estimates dated within 3 days of estimate i: the centered 7-day
\* window around it.
WithinThreeDays(i) ==
    {j \in 1..Len(est_df) :
        est_df[j].date - est_df[i].date <= 3 /\ est_df[i].date - est_df[j].date <= 3}

\* The estimates at most 3 rows from estimate i.
WithinThreeRows(i) == {j \in 1..Len(est_df) : j - i <= 3 /\ i - j <= 3}

\* C27 (as claimed): every emitted estimate has a smoothed value, the mean
\* of the point estimates inside the centered 7-day window around it, cut
\* at both ends of the sequence and holding at least the estimate itself;
\* with a single estimate it is the point estimate.
C27_MeanOverSevenDays ==
    tpc = "computed" =>
        /\ \A i \in 1..Len(est_df) :
              /\ est_df[i].tdee_smooth[2] > 0
              /\ IsPointMean(est_df[i].tdee_smooth, WithinThreeDays(i))
        /\ Len(est_df) = 1 => IsPointMean(est_df[1].tdee_smooth, {1})

\* What compute_tdee does give: the mean over the estimate, the 3 estimates
\* before it and the 3 after it in the sequence, however many days lie
\* between them.
C27_MeanOverSevenRows ==
    tpc = "computed" =>
        /\ \A i \in 1..Len(est_df) :
              /\ est_df[i].tdee_smooth[2] > 0
              /\ IsPointMean(est_df[i].tdee_smooth, WithinThreeRows(i))
        /\ Len(est_df) = 1 => IsPointMean(est_df[1].tdee_smooth, {1})

\* Runs in which the two windows differ are among those checked: estimates
\* more than 3 days apart, and more than 7 estimates in a row.
C27_GapReached ==
    tpc = "computed" /\ \E i \in 1..Len(est_df) : WithinThreeDays(i) # WithinThreeRows(i)

C27_LongRunReached ==
    tpc = "computed" /\ Len(est_df) > SmoothWindow


\* The dates of the records of summary.json.
RecordDates == {summary[i].date : i \in 1..Len(summary)}

\* C29: every estimate has 1 <= days <= window_days - 1, window_start <
\* window_end <= date and window_start >= date - (window_days - 1); the
\* estimate dates are strictly ascending, at most one estimate a day, all
\* between the earliest and the latest record date.
C29_EstimateBounds ==
    tpc = "computed" =>
        /\ \A k \in 1..Len(est_df) :
              /\ 1 <= est_df[k].days
              /\ est_df[k].days <= window_days - 1
              /\ est_df[k].window_start < est_df[k].window_end
              /\ est_df[k].window_end <= est_df[k].date
              /\ est_df[k].window_start >= est_df[k].date - (window_days - 1)
              /\ MinOf(RecordDates) <= est_df[k].date
              /\ est_df[k].date <= MaxOf(RecordDates)
        /\ \A k \in 1..(Len(est_df) - 1) : est_df[k].date < est_df[k + 1].date

\* C29 witness: an estimate whose weights span the whole window (days =
\* window_days - 1, window_start = date - (window_days - 1)), followed by a
\* later estimate.
C29_Witness ==
    /\ tpc = "computed"
    /\ Len(est_df) >= 2
    /\ est_df[1].days = window_days - 1
    /\ est_df[1].window_start = est_df[1].date - (window_days - 1)
    /\ est_df[1].window_end = est_df[1].date


\* The calendar days of the window that ends on day d.
WindowDays(d) == {x \in (d - (window_days - 1))..d : TRUE}

\* The record of a day, when there is one.
HasRecord(x) == \E i \in 1..Len(summary) : summary[i].date = x

RecordOn(x) == summary[CHOOSE i \in 1..Len(summary) : summary[i].date = x]

\* The days of a window with a recorded weight, and with a recorded intake.
WeightDays(d) ==
    {x \in WindowDays(d) : HasRecord(x) /\ Len(RecordOn(x).meta.weight) = 1}

IntakeDays(d) ==
    {x \in WindowDays(d) : HasRecord(x) /\ Len(RecordOn(x).meta.actual_calories) = 1}

RECURSIVE IntakeOver(_)
IntakeOver(days) ==
    IF days = {} THEN 0
    ELSE LET x == CHOOSE y \in days : TRUE
         IN  RecordOn(x).meta.actual_calories[1] + IntakeOver(days \ {x})

\* C25: a calendar day without a record, or without a recorded value, is no
\* value and never zero: it is not counted among the weight observations
\* or the intake observations of a window, mean_cal is the mean of the
\* recorded intakes only, and the first and the last weight observation of
\* a window are values of real records.
C25_GapsAreNoValue ==
    tpc = "computed" =>
        /\ \A d \in MinOf(RecordDates)..MaxOf(RecordDates) :
              (\E k \in 1..Len(est_df) : est_df[k].date = d) =>
                  Cardinality(WeightDays(d)) >= 2 /\ Cardinality(IntakeDays(d)) >= 1
        /\ \A k \in 1..Len(est_df) :
              /\ est_df[k].window_start = MinOf(WeightDays(est_df[k].date))
              /\ est_df[k].window_end = MaxOf(WeightDays(est_df[k].date))
              /\ est_df[k].delta_w = RecordOn(est_df[k].window_end).meta.weight[1]
                                       - RecordOn(est_df[k].window_start).meta.weight[1]
              /\ est_df[k].mean_cal[2] > 0
              /\ SameQuotient(est_df[k].mean_cal[1], est_df[k].mean_cal[2],
                              IntakeOver(IntakeDays(est_df[k].date)),
                              Cardinality(IntakeDays(est_df[k].date)))

\* C25 witness: an estimate whose window holds a day without a record, a
\* record without a weight and a record without an intake, with the mean
\* taken over the one recorded intake.
C25_Witness ==
    /\ tpc = "computed"
    /\ \E k \in 1..Len(est_df) :
          /\ \E x \in WindowDays(est_df[k].date) :
                MinOf(RecordDates) <= x /\ x <= est_df[k].date /\ ~HasRecord(x)
          /\ \E x \in WindowDays(est_df[k].date) :
                HasRecord(x) /\ Len(RecordOn(x).meta.actual_calories) = 0
          /\ Cardinality(IntakeDays(est_df[k].date)) = 1
          /\ est_df[k].mean_cal[1] = 2200 * est_df[k].mean_cal[2]

====
